---- MODULE Spec2Model ----
(***************************************************************************)
(* A model of json-rules-engine: the three-valued status algebra, the      *)
(* condition evaluator, event rendering, and Engine::run with its          *)
(* coalescence cache and its fan-out of dispatches.                        *)
(*                                                                         *)
(* Strings that the code takes apart (field paths, mustache templates) are *)
(* sequences of tokens; every other string is an atomic TLA+ string.       *)
(***************************************************************************)
EXTENDS Integers, Sequences, FiniteSets, TLC

(***************************************************************************)
(* Bounds of the model.                                                    *)
(***************************************************************************)
\* longest rule registry explored
MaxRules == 2
\* the clock stops advancing at this many ticks
MaxTime == 5
\* clock ticks per second: Duration::as_secs() floors to whole seconds
TicksPerSec == 2
\* number of callers that share the engine
NumCallers == 2

\* most children of a node in the condition trees explored
MaxChildren == 3

\* bits of an integer: i64 and u64 are IntBits wide in the model
IntBits == 8

Callers == 1..NumCallers

(***************************************************************************)
(* Option<T>                                                               *)
(***************************************************************************)
Some(x) == [some |-> TRUE, v |-> x]

NoneInt == [some |-> FALSE, v |-> 0]

NoneStr == [some |-> FALSE, v |-> <<>>]

(***************************************************************************)
(* Status and its operators (core.rs, STATUS).                             *)
(***************************************************************************)
Status == {"Met", "NotMet", "Unknown"}

\* a conjunction in which Unknown absorbs NotMet
bitand_unknown_first(a, b) ==
    IF a = "Met" /\ b = "Met" THEN "Met"
    ELSE IF a = "Unknown" \/ b = "Unknown" THEN "Unknown"
    ELSE "NotMet"

bitand(a, b) ==
    IF a = "Met" /\ b = "Met" THEN "Met"
    ELSE IF a = "NotMet" \/ b = "NotMet" THEN "NotMet"
    ELSE "Unknown"

\* a disjunction in which Met dominates from the left only
bitor_left(a, b) ==
    IF a = "NotMet" /\ b = "NotMet" THEN "NotMet"
    ELSE IF a = "Met" THEN "Met"
    ELSE "Unknown"

bitor(a, b) ==
    IF a = "NotMet" /\ b = "NotMet" THEN "NotMet"
    ELSE IF a = "Met" \/ b = "Met" THEN "Met"
    ELSE "Unknown"

not(a) ==
    IF a = "Met" THEN "NotMet"
    ELSE IF a = "NotMet" THEN "Met"
    ELSE "Unknown"

(***************************************************************************)
(* serde_json::Value, as tagged records.                                   *)
(***************************************************************************)
JNull == [t |-> "null", v |-> 0]

JBool(b) == [t |-> "bool", v |-> b]

JInt(n) == [t |-> "int", v |-> n]

\* a float is w halves plus e times f64::EPSILON, for small e
F(w, e) == [w |-> w, e |-> e]

JFloat(x) == [t |-> "float", v |-> x]

JStr(s) == [t |-> "string", v |-> s]

JArr(xs) == [t |-> "array", v |-> xs]

JObj(f) == [t |-> "object", v |-> f]

\* Value::as_str, Value::as_f64, Value::as_bool, Value::as_array, Value::as_i64
as_str(v) == IF v.t = "string" THEN Some(v.v) ELSE [some |-> FALSE, v |-> ""]

\* the range of i64, and the largest u64: a JSON integer is an i64 or a u64
I64Min == 0 - 2^(IntBits - 1)

I64Max == 2^(IntBits - 1) - 1

U64Max == 2^IntBits - 1

\* Some for an integer that fits i64, None for a larger u64 and for any
\* other value
as_i64(v) == IF v.t = "int" /\ v.v <= I64Max THEN Some(v.v) ELSE NoneInt

\* every number converts to f64; only an integer converts to i64
as_f64(v) ==
    IF v.t = "float" THEN Some(v.v)
    ELSE IF v.t = "int" THEN Some(F(2 * v.v, 0))
    ELSE [some |-> FALSE, v |-> F(0, 0)]

as_bool(v) == IF v.t = "bool" THEN Some(v.v) ELSE [some |-> FALSE, v |-> FALSE]

as_array(v) == IF v.t = "array" THEN Some(v.v) ELSE NoneStr

(***************************************************************************)
(* Value::pointer: a path is a token sequence in which "/" separates the   *)
(* reference tokens.  The empty path is the whole value; a non-empty path  *)
(* that does not start with "/" resolves to nothing.  A token selects a    *)
(* member of an object by name and an element of an array by index.        *)
(***************************************************************************)
\* parse_index: the decimal tokens the model uses
parse_index(seg) ==
    CASE seg = "0" -> Some(0)
      [] seg = "1" -> Some(1)
      [] seg = "2" -> Some(2)
      [] OTHER     -> NoneInt

RECURSIVE PointerWalk(_, _)
PointerWalk(v, path) ==
    IF path = <<>> THEN Some(v)
    ELSE LET rest == Tail(path)
             seg  == IF rest # <<>> /\ Head(rest) # "/" THEN Head(rest) ELSE ""
             more == IF rest # <<>> /\ Head(rest) # "/" THEN Tail(rest) ELSE rest
         IN IF v.t = "object" /\ seg \in DOMAIN v.v
            THEN PointerWalk(v.v[seg], more)
            ELSE IF v.t = "array" /\ parse_index(seg).some
                    /\ parse_index(seg).v < Len(v.v)
            THEN PointerWalk(v.v[parse_index(seg).v + 1], more)
            ELSE [some |-> FALSE, v |-> JNull]

\* a lookup that hands out null for a path that does not resolve
pointer_or_null(v, path) ==
    IF path = <<>> THEN Some(v)
    ELSE IF Head(path) # "/" THEN Some(JNull)
    ELSE Some(PointerWalk(v, path).v)

pointer(v, path) ==
    IF path = <<>> THEN Some(v)
    ELSE IF Head(path) # "/" THEN [some |-> FALSE, v |-> JNull]
    ELSE PointerWalk(v, path)

(***************************************************************************)
(* Constraint::check_value: a typed predicate on one resolved fact value.  *)
(* A constraint is [op, arg]; range constraints carry arg = <<start, end>>.*)
(* The operator names are those of the serialized form of Constraint.      *)
(***************************************************************************)
MetIf(b) == IF b THEN "Met" ELSE "NotMet"

StringEquals(s, v) ==
    IF as_str(v).some THEN MetIf(as_str(v).v = s) ELSE "NotMet"

StringNotEquals(s, v) ==
    IF as_str(v).some THEN MetIf(as_str(v).v # s) ELSE "NotMet"

IntEquals(num, v) ==
    IF as_i64(v).some THEN MetIf(as_i64(v).v = num) ELSE "NotMet"

IntInRange(start, end, v) ==
    IF as_i64(v).some
    THEN MetIf(start <= as_i64(v).v /\ as_i64(v).v <= end)
    ELSE "NotMet"

IntNotInRange(start, end, v) ==
    IF as_i64(v).some
    THEN (IF start <= as_i64(v).v /\ as_i64(v).v <= end THEN "NotMet" ELSE "Met")
    ELSE "NotMet"

BoolEquals(b, v) ==
    IF as_bool(v).some THEN MetIf(as_bool(v).v = b) ELSE "NotMet"

\* x.iter().filter_map(|y| y.as_str()), and likewise for i64 and f64: the
\* elements of the other types are skipped
StrItems(xs) == {as_str(xs[i]).v : i \in {j \in 1..Len(xs) : as_str(xs[j]).some}}

IntItems(xs) == {as_i64(xs[i]).v : i \in {j \in 1..Len(xs) : as_i64(xs[j]).some}}

FloatItems(xs) == {as_f64(xs[i]).v : i \in {j \in 1..Len(xs) : as_f64(xs[j]).some}}

Elems(ss) == {ss[i] : i \in 1..Len(ss)}

StringContains(s, v) ==
    IF as_array(v).some THEN MetIf(s \in StrItems(as_array(v).v)) ELSE "NotMet"

StringContainsAll(ss, v) ==
    IF as_array(v).some
    THEN MetIf(\A y \in Elems(ss) : y \in StrItems(as_array(v).v))
    ELSE "NotMet"

StringContainsAny(ss, v) ==
    IF as_array(v).some
    THEN MetIf(\E y \in Elems(ss) : y \in StrItems(as_array(v).v))
    ELSE "NotMet"

StringDoesNotContain(s, v) ==
    IF as_array(v).some THEN MetIf(s \notin StrItems(as_array(v).v)) ELSE "NotMet"

StringDoesNotContainAny(ss, v) ==
    IF as_array(v).some
    THEN MetIf(\A y \in Elems(ss) : y \notin StrItems(as_array(v).v))
    ELSE "NotMet"

StringIn(ss, v) ==
    IF as_str(v).some THEN MetIf(\E x \in Elems(ss) : x = as_str(v).v) ELSE "NotMet"

StringNotIn(ss, v) ==
    IF as_str(v).some THEN MetIf(\A x \in Elems(ss) : x # as_str(v).v) ELSE "NotMet"

IntNotEquals(num, v) ==
    IF as_i64(v).some THEN MetIf(as_i64(v).v # num) ELSE "NotMet"

IntContains(num, v) ==
    IF as_array(v).some THEN MetIf(num \in IntItems(as_array(v).v)) ELSE "NotMet"

IntContainsAll(nums, v) ==
    IF as_array(v).some
    THEN MetIf(\A n \in Elems(nums) : n \in IntItems(as_array(v).v))
    ELSE "NotMet"

IntContainsAny(nums, v) ==
    IF as_array(v).some
    THEN MetIf(\E n \in Elems(nums) : n \in IntItems(as_array(v).v))
    ELSE "NotMet"

IntDoesNotContain(num, v) ==
    IF as_array(v).some THEN MetIf(num \notin IntItems(as_array(v).v)) ELSE "NotMet"

IntDoesNotContainAny(nums, v) ==
    IF as_array(v).some
    THEN MetIf(\A n \in Elems(nums) : n \notin IntItems(as_array(v).v))
    ELSE "NotMet"

IntIn(nums, v) ==
    IF as_i64(v).some THEN MetIf(\E n \in Elems(nums) : n = as_i64(v).v) ELSE "NotMet"

IntNotIn(nums, v) ==
    IF as_i64(v).some THEN MetIf(\A n \in Elems(nums) : n # as_i64(v).v) ELSE "NotMet"

IntLessThan(num, v) ==
    IF as_i64(v).some THEN MetIf(as_i64(v).v < num) ELSE "NotMet"

IntLessThanInclusive(num, v) ==
    IF as_i64(v).some THEN MetIf(as_i64(v).v <= num) ELSE "NotMet"

IntGreaterThan(num, v) ==
    IF as_i64(v).some THEN MetIf(as_i64(v).v > num) ELSE "NotMet"

IntGreaterThanInclusive(num, v) ==
    IF as_i64(v).some THEN MetIf(as_i64(v).v >= num) ELSE "NotMet"

\* comparisons of floats w/2 + e * EPSILON
FLess(x, y) == x.w < y.w \/ (x.w = y.w /\ x.e < y.e)

FLessEq(x, y) == x.w < y.w \/ (x.w = y.w /\ x.e <= y.e)

\* (x - y).abs() < f64::EPSILON
FNear(x, y) == x.w = y.w /\ x.e = y.e

\* (x - y).abs() > f64::EPSILON
FApart(x, y) == x.w # y.w \/ x.e - y.e > 1 \/ y.e - x.e > 1

FloatEquals(num, v) ==
    IF as_f64(v).some THEN MetIf(FNear(as_f64(v).v, num)) ELSE "NotMet"

FloatNotEquals(num, v) ==
    IF as_f64(v).some THEN MetIf(FApart(as_f64(v).v, num)) ELSE "NotMet"

FloatContains(num, v) ==
    IF as_array(v).some THEN MetIf(num \in FloatItems(as_array(v).v)) ELSE "NotMet"

FloatDoesNotContain(num, v) ==
    IF as_array(v).some THEN MetIf(num \notin FloatItems(as_array(v).v)) ELSE "NotMet"

FloatIn(nums, v) ==
    IF as_f64(v).some
    THEN MetIf(\E n \in Elems(nums) : FNear(as_f64(v).v, n))
    ELSE "NotMet"

FloatNotIn(nums, v) ==
    IF as_f64(v).some
    THEN MetIf(\A n \in Elems(nums) : FApart(as_f64(v).v, n))
    ELSE "NotMet"

FloatInRange(start, end, v) ==
    IF as_f64(v).some
    THEN MetIf(FLessEq(start, as_f64(v).v) /\ FLessEq(as_f64(v).v, end))
    ELSE "NotMet"

FloatNotInRange(start, end, v) ==
    IF as_f64(v).some
    THEN (IF FLessEq(start, as_f64(v).v) /\ FLessEq(as_f64(v).v, end)
          THEN "NotMet" ELSE "Met")
    ELSE "NotMet"

FloatLessThan(num, v) ==
    IF as_f64(v).some THEN MetIf(FLess(as_f64(v).v, num)) ELSE "NotMet"

FloatLessThanInclusive(num, v) ==
    IF as_f64(v).some THEN MetIf(FLessEq(as_f64(v).v, num)) ELSE "NotMet"

FloatGreaterThan(num, v) ==
    IF as_f64(v).some THEN MetIf(FLess(num, as_f64(v).v)) ELSE "NotMet"

FloatGreaterThanInclusive(num, v) ==
    IF as_f64(v).some THEN MetIf(FLessEq(num, as_f64(v).v)) ELSE "NotMet"
ConstraintCheck(c, v) ==
    CASE c.op = "string_equals"                -> StringEquals(c.arg, v)
      [] c.op = "string_not_equals"            -> StringNotEquals(c.arg, v)
      [] c.op = "string_contains"              -> StringContains(c.arg, v)
      [] c.op = "string_contains_all"          -> StringContainsAll(c.arg, v)
      [] c.op = "string_contains_any"          -> StringContainsAny(c.arg, v)
      [] c.op = "string_does_not_contain"      -> StringDoesNotContain(c.arg, v)
      [] c.op = "string_does_not_contain_any"  -> StringDoesNotContainAny(c.arg, v)
      [] c.op = "string_in"                    -> StringIn(c.arg, v)
      [] c.op = "string_not_in"                -> StringNotIn(c.arg, v)
      [] c.op = "int_equals"                   -> IntEquals(c.arg, v)
      [] c.op = "int_not_equals"               -> IntNotEquals(c.arg, v)
      [] c.op = "int_contains"                 -> IntContains(c.arg, v)
      [] c.op = "int_contains_all"             -> IntContainsAll(c.arg, v)
      [] c.op = "int_contains_any"             -> IntContainsAny(c.arg, v)
      [] c.op = "int_does_not_contain"         -> IntDoesNotContain(c.arg, v)
      [] c.op = "int_does_not_contain_any"     -> IntDoesNotContainAny(c.arg, v)
      [] c.op = "int_in"                       -> IntIn(c.arg, v)
      [] c.op = "int_not_in"                   -> IntNotIn(c.arg, v)
      [] c.op = "int_in_range"                 -> IntInRange(c.arg[1], c.arg[2], v)
      [] c.op = "int_not_in_range"             -> IntNotInRange(c.arg[1], c.arg[2], v)
      [] c.op = "int_less_than"                -> IntLessThan(c.arg, v)
      [] c.op = "int_less_than_inclusive"      -> IntLessThanInclusive(c.arg, v)
      [] c.op = "int_greater_than"             -> IntGreaterThan(c.arg, v)
      [] c.op = "int_greater_than_inclusive"   -> IntGreaterThanInclusive(c.arg, v)
      [] c.op = "float_equals"                 -> FloatEquals(c.arg, v)
      [] c.op = "float_not_equals"             -> FloatNotEquals(c.arg, v)
      [] c.op = "float_contains"               -> FloatContains(c.arg, v)
      [] c.op = "float_does_not_contain"       -> FloatDoesNotContain(c.arg, v)
      [] c.op = "float_in"                     -> FloatIn(c.arg, v)
      [] c.op = "float_not_in"                 -> FloatNotIn(c.arg, v)
      [] c.op = "float_in_range"               -> FloatInRange(c.arg[1], c.arg[2], v)
      [] c.op = "float_not_in_range"           -> FloatNotInRange(c.arg[1], c.arg[2], v)
      [] c.op = "float_less_than"              -> FloatLessThan(c.arg, v)
      [] c.op = "float_less_than_inclusive"    -> FloatLessThanInclusive(c.arg, v)
      [] c.op = "float_greater_than"           -> FloatGreaterThan(c.arg, v)
      [] c.op = "float_greater_than_inclusive" -> FloatGreaterThanInclusive(c.arg, v)
      [] c.op = "bool_equals"                  -> BoolEquals(c.arg, v)

(***************************************************************************)
(* Condition::check_value: depth-first evaluation of a condition tree into *)
(* a ConditionResult [name, status, children].                             *)
(***************************************************************************)
\* an accumulation that overwrites: status = r.status
FoldStatusLast(isAnd, acc, children, i) ==
    IF children = <<>> THEN acc ELSE children[Len(children)].status

RECURSIVE FoldStatus(_, _, _, _)
\* statuses[i..] folded into acc, with & (isAnd) or |
FoldStatus(isAnd, acc, children, i) ==
    IF i > Len(children) THEN acc
    ELSE FoldStatus(isAnd,
                    IF isAnd THEN bitand(acc, children[i].status)
                             ELSE bitor(acc, children[i].status),
                    children, i + 1)

\* a count of the children that are not NotMet
MetCountLenient(children) ==
    Cardinality({i \in 1..Len(children) : children[i].status # "NotMet"})

MetCount(children) == Cardinality({i \in 1..Len(children) : children[i].status = "Met"})

\* a leaf that resolves its field as written
LeafPathRaw(field) == field

\* the path a leaf resolves: the field, with a leading "/" when it has none
LeafPath(field) ==
    IF field # <<>> /\ Head(field) = "/" THEN field ELSE <<"/">> \o field

(***************************************************************************)
(* The Eval leaf.  An expression is given by its syntax tree; the engine   *)
(* of expressions is the raw one with the arithmetic, logic, array and map *)
(* packages and the functions registered with add_function.                *)
(***************************************************************************)
\* true, false
ExprBool(b) == [k |-> "bool", b |-> b, f |-> ""]

\* facts.age > 20 && facts.age <= 25
ExprAgeWindow == [k |-> "age_window", b |-> FALSE, f |-> ""]

\* f(facts)
ExprCall(f) == [k |-> "call", b |-> FALSE, f |-> f]

\* facts.age: an expression whose value is not a bool
ExprAge == [k |-> "age", b |-> FALSE, f |-> ""]

\* facts.age > : an expression that does not parse
ExprSyntax == [k |-> "syntax", b |-> FALSE, f |-> ""]

\* the functions registered with add_function
RegisteredFunctions == {"my_function"}

\* the registered function: facts.age > 20 && facts.age <= 25 on the
\* deserialized facts
my_function(p) == p.v.age.v > 20 /\ p.v.age.v <= 25

\* rhai::serde::to_dynamic
to_dynamic(info) == [ok |-> TRUE, value |-> info]

\* Scope::new(), with facts pushed when the conversion succeeded
EvalScope(info) ==
    IF to_dynamic(info).ok THEN Some(to_dynamic(info).value) ELSE [some |-> FALSE, v |-> JNull]

EvalErr(e) == [ok |-> FALSE, v |-> JNull, err |-> e]

EvalOk(v) == [ok |-> TRUE, v |-> v, err |-> ""]

HasAge(facts) == facts.t = "object" /\ "age" \in DOMAIN facts.v /\ facts.v.age.t = "int"

\* the value of the expression, or the failure of its parsing or evaluation
eval_dynamic(scope, expr) ==
    CASE expr.k = "syntax" -> EvalErr("parse")
      [] expr.k = "bool" -> EvalOk(JBool(expr.b))
      [] expr.k = "age_window" ->
           IF scope.some /\ HasAge(scope.v)
           THEN EvalOk(JBool(scope.v.v.age.v > 20 /\ scope.v.v.age.v <= 25))
           ELSE EvalErr("runtime")
      [] expr.k = "age" ->
           IF scope.some /\ HasAge(scope.v) THEN EvalOk(scope.v.v.age)
           ELSE EvalErr("runtime")
      [] expr.k = "call" ->
           IF scope.some /\ expr.f \in RegisteredFunctions /\ scope.v.t = "object"
           THEN EvalOk(JBool(my_function(scope.v)))
           ELSE EvalErr("runtime")

\* rhai_engine.eval_with_scope::<bool>(&mut scope, expr)
eval_with_scope(scope, expr) ==
    LET r == eval_dynamic(scope, expr)
    IN IF ~r.ok THEN [ok |-> FALSE, v |-> FALSE, err |-> r.err]
       ELSE IF r.v.t # "bool" THEN [ok |-> FALSE, v |-> FALSE, err |-> "mismatch"]
       ELSE [ok |-> TRUE, v |-> r.v.v, err |-> ""]

\* a leaf that has no answer when the evaluator fails
EvalStatusLenient(r) == IF r.ok THEN MetIf(r.v) ELSE "Unknown"

\* if r.unwrap_or(false) { Status::Met } else { Status::NotMet }
EvalStatus(r) == IF (IF r.ok THEN r.v ELSE FALSE) THEN "Met" ELSE "NotMet"

RECURSIVE ConditionCheckShort(_, _)
\* a walk that stops at the child that decides an And or an Or
ConditionCheckShort(cond, info) ==
    CASE cond.kind \in {"and", "or"} ->
           LET cs   == IF cond.kind = "and" THEN cond.and ELSE cond.or
               all  == [i \in 1..Len(cs) |-> ConditionCheckShort(cs[i], info)]
               stop == IF cond.kind = "and" THEN "NotMet" ELSE "Met"
               hits == {i \in 1..Len(cs) : all[i].status = stop}
               n    == IF hits = {} THEN Len(cs)
                       ELSE CHOOSE i \in hits : \A j \in hits : i <= j
               children == SubSeq(all, 1, n)
           IN [name |-> IF cond.kind = "and" THEN <<"And">> ELSE <<"Or">>,
               status |-> FoldStatus(cond.kind = "and",
                                     IF cond.kind = "and" THEN "Met" ELSE "NotMet",
                                     children, 1),
               children |-> children]
      [] cond.kind = "at_least" ->
           LET children == [i \in 1..Len(cond.conditions) |->
                               ConditionCheckShort(cond.conditions[i], info)]
           IN [name |-> <<"At least meet", ToString(cond.should_minimum_meet),
                          "of", ToString(Len(cond.conditions))>>,
               status |-> MetIf(MetCount(children) >= cond.should_minimum_meet),
               children |-> children]
      [] cond.kind = "condition" ->
           LET s == pointer(info, LeafPath(cond.field))
           IN [name |-> cond.field,
               status |-> IF s.some THEN ConstraintCheck(cond.constraint, s.v)
                          ELSE "Unknown",
               children |-> <<>>]
      [] cond.kind = "eval" ->
           [name |-> <<"Eval">>,
            status |-> EvalStatus(eval_with_scope(EvalScope(info), cond.expr)),
            children |-> <<>>]

RECURSIVE ConditionCheck(_, _)
ConditionCheck(cond, info) ==
    CASE cond.kind = "and" ->
           LET children == [i \in 1..Len(cond.and) |-> ConditionCheck(cond.and[i], info)]
           IN [name |-> <<"And">>,
               status |-> FoldStatus(TRUE, "Met", children, 1),
               children |-> children]
      [] cond.kind = "or" ->
           LET children == [i \in 1..Len(cond.or) |-> ConditionCheck(cond.or[i], info)]
           IN [name |-> <<"Or">>,
               status |-> FoldStatus(FALSE, "NotMet", children, 1),
               children |-> children]
      [] cond.kind = "at_least" ->
           LET children == [i \in 1..Len(cond.conditions) |->
                               ConditionCheck(cond.conditions[i], info)]
           IN [name |-> <<"At least meet", ToString(cond.should_minimum_meet),
                          "of", ToString(Len(cond.conditions))>>,
               status |-> MetIf(MetCount(children) >= cond.should_minimum_meet),
               children |-> children]
      [] cond.kind = "condition" ->
           LET s == pointer(info, LeafPath(cond.field))
           IN [name |-> cond.field,
               status |-> IF s.some THEN ConstraintCheck(cond.constraint, s.v)
                          ELSE "Unknown",
               children |-> <<>>]
      [] cond.kind = "eval" ->
           [name |-> <<"Eval">>,
            status |-> EvalStatus(eval_with_scope(EvalScope(info), cond.expr)),
            children |-> <<>>]

(***************************************************************************)
(* Templated strings.  A String that may hold mustache tags is a sequence  *)
(* of tokens [k, s]: literal text, a {{variable}} tag, or an unclosed tag. *)
(* Rendered text holds literal tokens only.                                *)
(***************************************************************************)
Lit(s) == [k |-> "lit", s |-> s]

Var(s) == [k |-> "var", s |-> s]

Unclosed == [k |-> "open", s |-> "{{"]

\* mustache::compile_str fails on a tag that is never closed
CompileOk(template) == \A i \in 1..Len(template) : template[i].k # "open"

\* the text a {{variable}} tag renders to: nothing when the name is absent
VarText(info, name) ==
    IF info.t = "object" /\ name \in DOMAIN info.v
    THEN LET x == info.v[name]
         IN CASE x.t = "string" -> <<Lit(x.v)>>
              [] x.t = "int"    -> <<Lit(ToString(x.v))>>
              [] x.t = "bool"   -> <<Lit(ToString(x.v))>>
              [] OTHER          -> <<>>
    ELSE <<>>

RECURSIVE RenderTokens(_, _)
RenderTokens(template, info) ==
    IF template = <<>> THEN <<>>
    ELSE (IF Head(template).k = "var"
          THEN VarText(info, Head(template).s)
          ELSE <<Head(template)>>) \o RenderTokens(Tail(template), info)

\* mustache::compile_str(t).and_then(|t| t.render_to_string(info))
Render(template, info) ==
    IF CompileOk(template)
    THEN [ok |-> TRUE, text |-> RenderTokens(template, info)]
    ELSE [ok |-> FALSE, text |-> <<>>]

\* if let Ok(x) = render(field) { field = x }
RenderField(template, info) ==
    IF Render(template, info).ok THEN Render(template, info).text ELSE template

(***************************************************************************)
(* CoalescenceEvent: an Event (Message, PostToCallbackUrl,                 *)
(* EmailNotification) with an optional TTL in seconds and an optional      *)
(* group key.                                                              *)
(***************************************************************************)
Message(msg, ttl, group) ==
    [kind |-> "message", message |-> msg, callback_url |-> <<>>, to |-> <<>>,
     coalescence |-> ttl, coalescence_group |-> group]

PostToCallbackUrl(url, msg, ttl, group) ==
    [kind |-> "post_to_callback_url", message |-> msg, callback_url |-> url,
     to |-> <<>>, coalescence |-> ttl, coalescence_group |-> group]

EmailNotification(to, msg, ttl, group) ==
    [kind |-> "email_notification", message |-> msg, callback_url |-> <<>>,
     to |-> to, coalescence |-> ttl, coalescence_group |-> group]

\* an event of a custom sink: a type tag and the params of the sink, here name
CustomEvent(ty, name, ttl, group) ==
    [kind |-> ty, params |-> [name |-> name], message |-> <<>>,
     callback_url |-> <<>>, to |-> <<>>, coalescence |-> ttl,
     coalescence_group |-> group]

\* a rendering that gives up on the event when its message does not render
RenderEventAbort(e, info) ==
    IF Render(e.message, info).ok
    THEN [e EXCEPT !.message = RenderField(e.message, info),
                   !.callback_url = IF e.kind = "post_to_callback_url"
                                    THEN RenderField(e.callback_url, info)
                                    ELSE e.callback_url,
                   !.coalescence_group =
                       IF e.coalescence_group.some
                       THEN Some(RenderField(e.coalescence_group.v, info))
                       ELSE e.coalescence_group]
    ELSE e

\* the body of the rendering loop of Rule::check_value, for one event
RenderEvent(e, info) ==
    [e EXCEPT !.message = RenderField(e.message, info),
              !.callback_url = IF e.kind = "post_to_callback_url"
                               THEN RenderField(e.callback_url, info)
                               ELSE e.callback_url,
              !.coalescence_group = IF e.coalescence_group.some
                                    THEN Some(RenderField(e.coalescence_group.v, info))
                                    ELSE e.coalescence_group]

\* Rule::check_value
RuleCheck(rule, info) ==
    [condition_result |-> ConditionCheck(rule.conditions, info),
     events |-> [i \in 1..Len(rule.events) |-> RenderEvent(rule.events[i], info)]]

(***************************************************************************)
(* The rules and facts the model explores.                                 *)
(***************************************************************************)
Leaf(field, op, arg) ==
    [kind |-> "condition", field |-> field, constraint |-> [op |-> op, arg |-> arg]]

And(cs) == [kind |-> "and", and |-> cs]

Or(cs) == [kind |-> "or", or |-> cs]

AtLeast(n, cs) == [kind |-> "at_least", should_minimum_meet |-> n, conditions |-> cs]

Eval(expr) == [kind |-> "eval", expr |-> expr]

GroupG == <<Lit("g")>>

GroupName == <<Var("name")>>

Url == <<Lit("http://sink/"), Var("name")>>

Catalogue ==
    << \* Met when name is "A" and age is in 20..25, else NotMet; one callback
       \* coalesced for a second in group g
       [conditions |-> And(<<Leaf(<<"/", "name">>, "string_equals", "A"),
                             Leaf(<<"age">>, "int_in_range", <<20, 25>>)>>),
        events |-> <<PostToCallbackUrl(Url, <<Lit("hello "), Var("name")>>,
                                       Some(1), Some(GroupG))>>],
       \* always Met; a message whose group is rendered from the facts, and a
       \* mail with a TTL but no group
       [conditions |-> AtLeast(0, <<>>),
        events |-> <<Message(<<Lit("m")>>, Some(2), Some(GroupName)),
                     EmailNotification(<<"ops">>, <<Lit("e")>>, Some(1), NoneStr)>>],
       \* Unknown when age is absent; a message with a group but no TTL, a mail
       \* without recipients, and a callback in group g with a longer TTL
       [conditions |-> Leaf(<<"age">>, "int_in_range", <<20, 25>>),
        events |-> <<Message(<<Lit("n")>>, NoneInt, Some(GroupG)),
                     EmailNotification(<<>>, <<Lit("x")>>, NoneInt, NoneStr),
                     PostToCallbackUrl(Url, <<Unclosed, Lit("age")>>,
                                       Some(2), Some(GroupG))>>],
       \* the rule of the custom sink: Met when name is "A" and age is in
       \* 20..25, with one event of type custom_event
       [conditions |-> And(<<Leaf(<<"name">>, "string_equals", "A"),
                             Leaf(<<"age">>, "int_in_range", <<20, 25>>)>>),
        events |-> <<CustomEvent("custom_event", <<Var("name")>>,
                                 NoneInt, NoneStr)>>],
       \* always Met; four coalesced events, of which the first and the third
       \* render to one key when name is "A", and the second and the fourth
       \* share group g with different TTLs
       [conditions |-> AtLeast(0, <<>>),
        events |-> <<Message(<<Lit("a")>>, Some(1), Some(GroupName)),
                     PostToCallbackUrl(Url, <<Lit("b")>>, Some(2), Some(GroupG)),
                     Message(<<Lit("c")>>, Some(1), Some(<<Lit("A")>>)),
                     PostToCallbackUrl(Url, <<Lit("d")>>, Some(1), Some(GroupG))>>] >>

\* the rules whose events all go to the sinks built into the engine, with
\* at most one event that is coalesced
RuleIds ==
    {r \in 1..Len(Catalogue) :
        /\ \A i \in 1..Len(Catalogue[r].events) :
              Catalogue[r].events[i].kind \in
                 {"message", "post_to_callback_url", "email_notification"}
        /\ Cardinality({i \in 1..Len(Catalogue[r].events) :
                           /\ Catalogue[r].events[i].coalescence.some
                           /\ Catalogue[r].events[i].coalescence_group.some}) <= 1}

\* the argument lists tried for add_rules and load_rules
RuleLists == {<<>>, <<3>>, <<1, 2>>, <<3, 1>>, <<2, 3>>}

\* what a caller passes to run(): a serializable value, or one whose
\* Serialize implementation fails
FactInputs ==
    { [serializable |-> TRUE,
       tree |-> JObj([name |-> JStr("A"), age |-> JInt(24)])],
      [serializable |-> TRUE,
       tree |-> JObj([name |-> JStr("g")])],
      [serializable |-> FALSE, tree |-> JNull] }

\* a conversion that falls back to null instead of failing
to_value_or_null(f) ==
    IF f.serializable THEN [ok |-> TRUE, value |-> f.tree]
    ELSE [ok |-> TRUE, value |-> JNull]

\* serde_json::value::to_value
to_value(f) ==
    IF f.serializable THEN [ok |-> TRUE, value |-> f.tree]
    ELSE [ok |-> FALSE, value |-> JNull]

(***************************************************************************)
(* State.                                                                  *)
(***************************************************************************)
VARIABLES
    rules,         \* Engine.rules: the registry, as indices into Catalogue
    coalescences,  \* Engine.coalescences: group key -> [start, expiration]
    now,           \* the monotonic clock read by Instant::now(), in ticks
    pc,            \* per caller: where its run() future stands
    input,         \* per caller: the facts argument of the run
    facts,         \* per caller: the value tree of the run
    rule_results,  \* per caller: the rule results of the run
    cursor,        \* per caller: the event the coalescence loop is at
    hit,           \* per caller: what contains_key answered for that event
    evictAt,       \* per caller: the clock read of the eviction step
    requests,      \* per caller: the dispatches handed to join_all
    ret,           \* per caller: what run() returned
    lastFire,      \* per group key: when an event of the group last fired
    call,          \* the application of a pure operator under examination
    sinks          \* the type tags under which a custom sink is registered

vars == <<rules, coalescences, now, pc, input, facts, rule_results, cursor, hit,
          evictAt, requests, ret, lastFire, call, sinks>>

\* the state of the engine and of its callers
engine == <<rules, coalescences, now, pc, input, facts, rule_results, cursor, hit,
            evictAt, requests, ret, lastFire, sinks>>

locals == <<input, facts, rule_results, cursor, hit, evictAt, requests, ret>>

EmptyMap == [k \in {} |-> 0]

NoRet == [st |-> "none", value |-> <<>>]

NoInput == [serializable |-> TRUE, tree |-> JNull]

NoCursor == [ri |-> 0, ei |-> 0]

NoCall == [fn |-> "none"]

NoFire == [fired |-> FALSE, at |-> 0, ttl |-> 0, by |-> 0]

\* every group key an event of the catalogue can render to
GroupKeys ==
    UNION { { RenderEvent(Catalogue[r].events[i], to_value(f).value).coalescence_group.v :
                i \in { j \in 1..Len(Catalogue[r].events) :
                          Catalogue[r].events[j].coalescence_group.some } } :
            r \in RuleIds, f \in {x \in FactInputs : x.serializable} }

\* Engine::new(), before any caller has used it
EngineNew ==
    /\ rules = <<>>
    /\ coalescences = EmptyMap
    /\ now = 0
    /\ pc = [c \in Callers |-> "idle"]
    /\ input = [c \in Callers |-> NoInput]
    /\ facts = [c \in Callers |-> JNull]
    /\ rule_results = [c \in Callers |-> <<>>]
    /\ cursor = [c \in Callers |-> NoCursor]
    /\ hit = [c \in Callers |-> FALSE]
    /\ evictAt = [c \in Callers |-> 0]
    /\ requests = [c \in Callers |-> <<>>]
    /\ ret = [c \in Callers |-> NoRet]
    /\ lastFire = [g \in GroupKeys |-> NoFire]
    /\ sinks = {}

Init ==
    /\ EngineNew
    /\ call = NoCall

(***************************************************************************)
(* The engine is reached through &mut self: while a run() future of one    *)
(* caller is alive, no other call on the engine can start.  The future is  *)
(* alive until the caller has taken its result (Drop).                     *)
(***************************************************************************)
\* an engine that any caller may enter at any time
EngineUnguarded == TRUE

EngineFree == \A c \in Callers : pc[c] = "idle"

\* the clock advances; a caller takes a resolved result without delay
Tick ==
    /\ \A c \in Callers : pc[c] # "returned"
    /\ now < MaxTime
    /\ now' = now + 1
    /\ UNCHANGED <<rules, coalescences, pc, locals, lastFire>>
    /\ UNCHANGED <<call, sinks>>

(***************************************************************************)
(* The rule registry.                                                      *)
(***************************************************************************)
add_rule(r) ==
    /\ EngineFree
    /\ Len(rules) < MaxRules
    /\ rules' = Append(rules, r)
    /\ UNCHANGED <<coalescences, now, pc, locals, lastFire>>
    /\ UNCHANGED <<call, sinks>>

\* an extension at the front of the registry
add_rules_front(rs) ==
    /\ EngineFree
    /\ Len(rules) + Len(rs) <= MaxRules
    /\ rules' = rs \o rules
    /\ UNCHANGED <<coalescences, now, pc, locals, lastFire>>
    /\ UNCHANGED <<call, sinks>>

add_rules(rs) ==
    /\ EngineFree
    /\ Len(rules) + Len(rs) <= MaxRules
    /\ rules' = rules \o rs
    /\ UNCHANGED <<coalescences, now, pc, locals, lastFire>>
    /\ UNCHANGED <<call, sinks>>

load_rules(rs) ==
    /\ EngineFree
    /\ Len(rs) <= MaxRules
    /\ rules' = rs
    /\ UNCHANGED <<coalescences, now, pc, locals, lastFire>>
    /\ UNCHANGED <<call, sinks>>

\* a clear that empties the cache with the registry
clear_all ==
    /\ EngineFree
    /\ rules' = <<>>
    /\ coalescences' = EmptyMap
    /\ UNCHANGED <<now, pc, locals, lastFire>>
    /\ UNCHANGED <<call, sinks>>

clear ==
    /\ EngineFree
    /\ rules' = <<>>
    /\ UNCHANGED <<coalescences, now, pc, locals, lastFire>>
    /\ UNCHANGED <<call, sinks>>

(***************************************************************************)
(* Engine::run.  The future runs without suspension from its first poll to *)
(* the join_all it awaits; the steps below follow its statements in order. *)
(***************************************************************************)
\* an elapsed time that is not floored to whole seconds
ElapsedTicks(start) == now - start

\* start.elapsed().as_secs(): whole seconds since start
ElapsedSecs(start) == (now - start) \div TicksPerSec

RECURSIVE MetResultsNotNotMet(_, _, _)
\* a filter that drops the NotMet rules only
MetResultsNotNotMet(rs, info, i) ==
    IF i > Len(rs) THEN <<>>
    ELSE LET rr == RuleCheck(Catalogue[rs[i]], info)
         IN (IF rr.condition_result.status # "NotMet" THEN <<rr>> ELSE <<>>)
            \o MetResultsNotNotMet(rs, info, i + 1)

RECURSIVE MetResultsAll(_, _, _)
\* no filter: the result of every rule is kept
MetResultsAll(rs, info, i) ==
    IF i > Len(rs) THEN <<>>
    ELSE <<RuleCheck(Catalogue[rs[i]], info)>> \o MetResultsAll(rs, info, i + 1)

RECURSIVE MetResultsKnown(_, _, _)
\* a filter that drops the Unknown rules only
MetResultsKnown(rs, info, i) ==
    IF i > Len(rs) THEN <<>>
    ELSE LET rr == RuleCheck(Catalogue[rs[i]], info)
         IN (IF rr.condition_result.status # "Unknown" THEN <<rr>> ELSE <<>>)
            \o MetResultsKnown(rs, info, i + 1)

RECURSIVE MetResults(_, _, _)
\* rules.iter().map(check_value).filter(status == Met), from rule i on
MetResults(rs, info, i) ==
    IF i > Len(rs) THEN <<>>
    ELSE LET rr == RuleCheck(Catalogue[rs[i]], info)
         IN (IF rr.condition_result.status = "Met" THEN <<rr>> ELSE <<>>)
            \o MetResults(rs, info, i + 1)

RECURSIVE Normalise(_, _, _)
\* the first event at or after (ri, ei); ri = Len(rr) + 1 when there is none
Normalise(rr, ri, ei) ==
    IF ri > Len(rr) THEN [ri |-> Len(rr) + 1, ei |-> 1]
    ELSE IF ei > Len(rr[ri].events) THEN Normalise(rr, ri + 1, 1)
    ELSE [ri |-> ri, ei |-> ei]

RemoveAt(seq, i) == SubSeq(seq, 1, i - 1) \o SubSeq(seq, i + 1, Len(seq))

CurrentEvent(c) == rule_results[c][cursor[c].ri].events[cursor[c].ei]

\* a test that looks at the group key alone
CoalescedGroupOnly(e) == e.coalescence_group.some

\* a test that looks at the TTL alone
CoalescedTtlOnly(e) == e.coalescence.some

\* if let (Some(group), Some(ttl)) = (event.coalescence_group, event.coalescence)
Coalesced(e) == e.coalescence_group.some /\ e.coalescence.some

\* a run that evicts the expired entries before it converts the facts
RunEvaluateEvictFirst(c, f) ==
    /\ pc[c] = "idle"
    /\ EngineFree
    /\ input' = [input EXCEPT ![c] = f]
    /\ coalescences' = [k \in {x \in DOMAIN coalescences : ElapsedSecs(coalescences[x].start) <
                                  coalescences[x].expiration}
                          |-> coalescences[k]]
    /\ IF to_value(f).ok
       THEN /\ facts' = [facts EXCEPT ![c] = to_value(f).value]
            /\ rule_results' = [rule_results EXCEPT
                                  ![c] = MetResults(rules, to_value(f).value, 1)]
            /\ pc' = [pc EXCEPT ![c] = "evaluated"]
            /\ ret' = ret
       ELSE /\ ret' = [ret EXCEPT ![c] = [st |-> "err", value |-> <<>>]]
            /\ pc' = [pc EXCEPT ![c] = "returned"]
            /\ UNCHANGED <<facts, rule_results>>
    /\ UNCHANGED <<rules, now, cursor, hit, evictAt, requests, lastFire>>
    /\ UNCHANGED <<call, sinks>>

\* let facts = to_value(facts)?; then every rule is checked and the Met kept
RunEvaluate(c, f) ==
    /\ pc[c] = "idle"
    /\ EngineFree
    /\ input' = [input EXCEPT ![c] = f]
    /\ IF to_value(f).ok
       THEN /\ facts' = [facts EXCEPT ![c] = to_value(f).value]
            /\ rule_results' = [rule_results EXCEPT
                                  ![c] = MetResults(rules, to_value(f).value, 1)]
            /\ pc' = [pc EXCEPT ![c] = "evaluated"]
            /\ ret' = ret
       ELSE /\ ret' = [ret EXCEPT ![c] = [st |-> "err", value |-> <<>>]]
            /\ pc' = [pc EXCEPT ![c] = "returned"]
            /\ UNCHANGED <<facts, rule_results>>
    /\ UNCHANGED <<rules, coalescences, now, cursor, hit, evictAt, requests, lastFire>>
    /\ UNCHANGED <<call, sinks>>

\* a retain that keeps an entry through the second in which its TTL ends
LiveInclusive(entry) == ElapsedSecs(entry.start) <= entry.expiration

\* self.coalescences.retain(|_, (start, expiration)| elapsed_secs < expiration)
Live(entry) == ElapsedSecs(entry.start) < entry.expiration

RunEvict(c) ==
    /\ pc[c] = "evaluated"
    /\ coalescences' = [k \in {x \in DOMAIN coalescences : Live(coalescences[x])}
                          |-> coalescences[k]]
    /\ evictAt' = [evictAt EXCEPT ![c] = now]
    /\ cursor' = [cursor EXCEPT ![c] = Normalise(rule_results[c], 1, 1)]
    /\ pc' = [pc EXCEPT ![c] = "coalescing"]
    /\ UNCHANGED <<input, rules, now, facts, rule_results, hit, requests, ret, lastFire>>
    /\ UNCHANGED <<call, sinks>>

\* the retain closure up to contains_key: an event without a group or
\* without a TTL is kept at once
RunLookup(c) ==
    /\ pc[c] = "coalescing"
    /\ cursor[c].ri <= Len(rule_results[c])
    /\ IF Coalesced(CurrentEvent(c))
       THEN /\ hit' = [hit EXCEPT
                         ![c] = CurrentEvent(c).coalescence_group.v \in DOMAIN coalescences]
            /\ pc' = [pc EXCEPT ![c] = "decide"]
            /\ cursor' = cursor
       ELSE /\ cursor' = [cursor EXCEPT
                            ![c] = Normalise(rule_results[c], cursor[c].ri, cursor[c].ei + 1)]
            /\ UNCHANGED <<hit, pc>>
    /\ UNCHANGED <<input, rules, coalescences, now, facts, rule_results, evictAt,
                   requests, ret, lastFire>>
    /\ UNCHANGED <<call, sinks>>

\* a closure that keeps an event whose group is not cached without caching
\* the group
RunDecideNoInsert(c) ==
    /\ pc[c] = "decide"
    /\ LET e == CurrentEvent(c)
           g == e.coalescence_group.v
           ri == cursor[c].ri
           ei == cursor[c].ei
       IN IF hit[c]
          THEN /\ rule_results' = [rule_results EXCEPT
                                     ![c][ri].events = RemoveAt(@, ei)]
               /\ cursor' = [cursor EXCEPT
                               ![c] = Normalise(rule_results'[c], ri, ei)]
               /\ UNCHANGED <<coalescences, lastFire>>
          ELSE /\ lastFire' = [lastFire EXCEPT
                                 ![g] = [fired |-> TRUE, at |-> now,
                                         ttl |-> e.coalescence.v, by |-> c]]
               /\ cursor' = [cursor EXCEPT
                               ![c] = Normalise(rule_results[c], ri, ei + 1)]
               /\ UNCHANGED <<rule_results, coalescences>>
    /\ pc' = [pc EXCEPT ![c] = "coalescing"]
    /\ UNCHANGED <<input, rules, now, facts, hit, evictAt, requests, ret>>
    /\ UNCHANGED <<call, sinks>>

\* a closure that restarts the window of the group when it drops an event
RunDecideRefresh(c) ==
    /\ pc[c] = "decide"
    /\ LET e == CurrentEvent(c)
           g == e.coalescence_group.v
           ri == cursor[c].ri
           ei == cursor[c].ei
       IN /\ coalescences' =
                [k \in DOMAIN coalescences \cup {g} |->
                   IF k = g THEN [start |-> now, expiration |-> e.coalescence.v]
                   ELSE coalescences[k]]
          /\ IF hit[c]
             THEN /\ rule_results' = [rule_results EXCEPT
                                        ![c][ri].events = RemoveAt(@, ei)]
                  /\ cursor' = [cursor EXCEPT
                                  ![c] = Normalise(rule_results'[c], ri, ei)]
                  /\ UNCHANGED lastFire
             ELSE /\ lastFire' = [lastFire EXCEPT
                                    ![g] = [fired |-> TRUE, at |-> now,
                                            ttl |-> e.coalescence.v, by |-> c]]
                  /\ cursor' = [cursor EXCEPT
                                  ![c] = Normalise(rule_results[c], ri, ei + 1)]
                  /\ UNCHANGED rule_results
    /\ pc' = [pc EXCEPT ![c] = "coalescing"]
    /\ UNCHANGED <<input, rules, now, facts, hit, evictAt, requests, ret>>
    /\ UNCHANGED <<call, sinks>>

\* the rest of the closure: drop the event on a hit, else insert
\* (group, (Instant::now(), ttl)) and keep it
RunDecide(c) ==
    /\ pc[c] = "decide"
    /\ LET e == CurrentEvent(c)
           g == e.coalescence_group.v
           ri == cursor[c].ri
           ei == cursor[c].ei
       IN IF hit[c]
          THEN /\ rule_results' = [rule_results EXCEPT
                                     ![c][ri].events = RemoveAt(@, ei)]
               /\ cursor' = [cursor EXCEPT
                               ![c] = Normalise(rule_results'[c], ri, ei)]
               /\ UNCHANGED <<coalescences, lastFire>>
          ELSE /\ coalescences' =
                     [k \in DOMAIN coalescences \cup {g} |->
                        IF k = g THEN [start |-> now, expiration |-> e.coalescence.v]
                        ELSE coalescences[k]]
               /\ lastFire' = [lastFire EXCEPT
                                 ![g] = [fired |-> TRUE, at |-> now,
                                         ttl |-> e.coalescence.v, by |-> c]]
               /\ cursor' = [cursor EXCEPT
                               ![c] = Normalise(rule_results[c], ri, ei + 1)]
               /\ UNCHANGED rule_results
    /\ pc' = [pc EXCEPT ![c] = "coalescing"]
    /\ UNCHANGED <<input, rules, now, facts, hit, evictAt, requests, ret>>
    /\ UNCHANGED <<call, sinks>>

\* a filter_map that builds a request for a mail without looking at its
\* recipients
HasRequestAnyMail(e) ==
    \/ e.kind = "post_to_callback_url"
    \/ e.kind = "email_notification"

\* the filter_map that builds the requests: a callback always has one, a
\* mail only with a recipient, a message never
HasRequest(e) ==
    \/ e.kind = "post_to_callback_url"
    \/ e.kind = "email_notification" /\ e.to # <<>>

RECURSIVE BuildRequests(_, _, _)
BuildRequests(rr, ri, ei) ==
    IF ri > Len(rr) THEN <<>>
    ELSE IF ei > Len(rr[ri].events) THEN BuildRequests(rr, ri + 1, 1)
    ELSE (IF HasRequest(rr[ri].events[ei])
          THEN <<[ri |-> ri, ei |-> ei, st |-> "pending"]>>
          ELSE <<>>) \o BuildRequests(rr, ri, ei + 1)

RunDispatch(c) ==
    /\ pc[c] = "coalescing"
    /\ cursor[c].ri > Len(rule_results[c])
    /\ requests' = [requests EXCEPT ![c] = BuildRequests(rule_results[c], 1, 1)]
    /\ pc' = [pc EXCEPT ![c] = "dispatching"]
    /\ UNCHANGED <<input, rules, coalescences, now, facts, rule_results, cursor, hit,
                   evictAt, ret, lastFire>>
    /\ UNCHANGED <<call, sinks>>

\* a completion that takes the entry of the group back when the request
\* has failed
DispatchCompleteRollback(c, i, outcome) ==
    /\ pc[c] = "dispatching"
    /\ i \in 1..Len(requests[c])
    /\ requests[c][i].st = "pending"
    /\ requests' = [requests EXCEPT ![c][i].st = outcome]
    /\ LET e == rule_results[c][requests[c][i].ri].events[requests[c][i].ei]
       IN coalescences' =
             IF outcome = "failed" /\ Coalesced(e)
             THEN [k \in DOMAIN coalescences \ {e.coalescence_group.v} |-> coalescences[k]]
             ELSE coalescences
    /\ UNCHANGED <<input, rules, now, pc, facts, rule_results, cursor,
                   hit, evictAt, ret, lastFire>>
    /\ UNCHANGED <<call, sinks>>

\* one request polled by join_all completes, with Ok or with Err
DispatchComplete(c, i, outcome) ==
    /\ pc[c] = "dispatching"
    /\ i \in 1..Len(requests[c])
    /\ requests[c][i].st = "pending"
    /\ requests' = [requests EXCEPT ![c][i].st = outcome]
    /\ UNCHANGED <<input, rules, coalescences, now, pc, facts, rule_results, cursor,
                   hit, evictAt, ret, lastFire>>
    /\ UNCHANGED <<call, sinks>>

\* a join that yields as soon as one request has completed
AnyComplete(c) == \E i \in 1..Len(requests[c]) : requests[c][i].st # "pending"

\* join_all yields once every request has completed
AllComplete(c) == \A i \in 1..Len(requests[c]) : requests[c][i].st # "pending"

\* a result that carries the first failure, as try_join_all(..).await? would
RunResultFailFast(c) ==
    IF \E i \in 1..Len(requests[c]) : requests[c][i].st = "failed"
    THEN [st |-> "err", value |-> <<>>]
    ELSE [st |-> "ok", value |-> rule_results[c]]

\* a result that leaves out the rules whose events were all dropped
RunResultNonEmpty(c) ==
    LET Fired(rr) == rr.events # <<>>
    IN [st |-> "ok", value |-> SelectSeq(rule_results[c], Fired)]

\* let _ = join_all(requests).await; Ok(rule_results): the outcomes are dropped
RunResult(c) == [st |-> "ok", value |-> rule_results[c]]

RunReturn(c) ==
    /\ pc[c] = "dispatching"
    /\ AllComplete(c)
    /\ ret' = [ret EXCEPT ![c] = RunResult(c)]
    /\ pc' = [pc EXCEPT ![c] = "returned"]
    /\ UNCHANGED <<input, rules, coalescences, now, facts, rule_results, cursor, hit,
                   evictAt, requests, lastFire>>
    /\ UNCHANGED <<call, sinks>>

\* the caller is done with the result
Drop(c) ==
    /\ pc[c] = "returned"
    /\ pc' = [pc EXCEPT ![c] = "idle"]
    /\ input' = [input EXCEPT ![c] = NoInput]
    /\ facts' = [facts EXCEPT ![c] = JNull]
    /\ rule_results' = [rule_results EXCEPT ![c] = <<>>]
    /\ cursor' = [cursor EXCEPT ![c] = NoCursor]
    /\ hit' = [hit EXCEPT ![c] = FALSE]
    /\ evictAt' = [evictAt EXCEPT ![c] = 0]
    /\ requests' = [requests EXCEPT ![c] = <<>>]
    /\ ret' = [ret EXCEPT ![c] = NoRet]
    /\ UNCHANGED <<rules, coalescences, now, lastFire>>
    /\ UNCHANGED <<call, sinks>>

(***************************************************************************)
(* Spec: one caller owns the engine, registers rules and runs facts.       *)
(***************************************************************************)
Owner == 1

Next ==
    \/ Tick
    \/ \E r \in RuleIds : add_rule(r)
    \/ \E rs \in RuleLists : add_rules(rs)
    \/ \E rs \in RuleLists : load_rules(rs)
    \/ clear
    \/ \E f \in FactInputs : RunEvaluate(Owner, f)
    \/ RunEvict(Owner)
    \/ RunLookup(Owner)
    \/ RunDecide(Owner)
    \/ RunDispatch(Owner)
    \/ \E i \in 1..Len(requests[Owner]), o \in {"ok", "failed"} :
           DispatchComplete(Owner, i, o)
    \/ RunReturn(Owner)
    \/ Drop(Owner)

Spec == Init /\ [][Next]_vars

(***************************************************************************)
(* SharedSpec: an engine with its rules loaded, shared by several callers  *)
(* that all call run().                                                    *)
(***************************************************************************)
SharedRules == <<1, 2>>

SharedInit ==
    /\ rules = SharedRules
    /\ coalescences = EmptyMap
    /\ now = 0
    /\ pc = [c \in Callers |-> "idle"]
    /\ input = [c \in Callers |-> NoInput]
    /\ facts = [c \in Callers |-> JNull]
    /\ rule_results = [c \in Callers |-> <<>>]
    /\ cursor = [c \in Callers |-> NoCursor]
    /\ hit = [c \in Callers |-> FALSE]
    /\ evictAt = [c \in Callers |-> 0]
    /\ requests = [c \in Callers |-> <<>>]
    /\ ret = [c \in Callers |-> NoRet]
    /\ lastFire = [g \in GroupKeys |-> NoFire]
    /\ call = NoCall
    /\ sinks = {}

SharedNext ==
    \/ Tick
    \/ \E c \in Callers, f \in FactInputs : RunEvaluate(c, f)
    \/ \E c \in Callers : RunEvict(c)
    \/ \E c \in Callers : RunLookup(c)
    \/ \E c \in Callers : RunDecide(c)
    \/ \E c \in Callers : RunDispatch(c)
    \/ \E c \in Callers : \E i \in 1..Len(requests[c]), o \in {"ok", "failed"} :
           DispatchComplete(c, i, o)
    \/ \E c \in Callers : RunReturn(c)
    \/ \E c \in Callers : Drop(c)

SharedSpec == SharedInit /\ [][SharedNext]_vars

(***************************************************************************)
(* StatusSpec: the operators of Status applied to every triple of          *)
(* statuses, in the arrangements that the laws of the algebra compare.     *)
(***************************************************************************)
StatusInit ==
    /\ EngineNew
    /\ call \in {[fn |-> "status", a |-> a, b |-> b, c |-> c, op |-> "none", out |-> <<>>] :
                   a \in Status, b \in Status, c \in Status}

\* a & b, b & a, (a & b) & c, a & (b & c)
ApplyBitAnd ==
    /\ call.op = "none"
    /\ call' = [call EXCEPT
                  !.op = "bitand",
                  !.out = [x       |-> bitand(call.a, call.b),
                           swapped |-> bitand(call.b, call.a),
                           left    |-> bitand(bitand(call.a, call.b), call.c),
                           right   |-> bitand(call.a, bitand(call.b, call.c))]]
    /\ UNCHANGED engine

\* a | b, b | a, (a | b) | c, a | (b | c)
ApplyBitOr ==
    /\ call.op = "none"
    /\ call' = [call EXCEPT
                  !.op = "bitor",
                  !.out = [x       |-> bitor(call.a, call.b),
                           swapped |-> bitor(call.b, call.a),
                           left    |-> bitor(bitor(call.a, call.b), call.c),
                           right   |-> bitor(call.a, bitor(call.b, call.c))]]
    /\ UNCHANGED engine

\* !a, !!a
ApplyNot ==
    /\ call.op = "none"
    /\ call' = [call EXCEPT
                  !.op = "not",
                  !.out = [x |-> not(call.a), twice |-> not(not(call.a))]]
    /\ UNCHANGED engine

StatusNext == ApplyBitAnd \/ ApplyBitOr \/ ApplyNot

StatusSpec == StatusInit /\ [][StatusNext]_vars

(***************************************************************************)
(* EvalSpec: Condition::check_value applied to condition trees and leaves  *)
(* over one fact tree, and then to a rearrangement of the same condition.  *)
(***************************************************************************)
\* the facts of the evaluator's tests, with nested and collection values
EvalFacts ==
    JObj([foo    |-> JInt(1),
          bar    |-> JStr("bar"),
          baz    |-> JBool(TRUE),
          price  |-> JFloat(F(3, 0)),
          person |-> JObj([name |-> JStr("A")]),
          ints   |-> JArr(<<JInt(1), JInt(2)>>),
          strs   |-> JArr(<<JStr("a"), JStr("b")>>),
          mixed  |-> JArr(<<JInt(1), JStr("a")>>),
          quote  |-> JStr("tRuE"),
          none   |-> JNull])

\* fields that resolve in EvalFacts, written without and with a leading "/"
PresentFields ==
    << <<"foo">>, <<"/", "foo">>, <<"bar">>, <<"baz">>, <<"price">>,
       <<"person", "/", "name">>, <<"/", "person", "/", "name">>,
       <<"ints">>, <<"strs">>, <<"mixed">>, <<"quote">>, <<"none">>,
       <<"person">>, <<"ints", "/", "0">> >>

\* fields that do not resolve: an absent member, a member of a scalar, an
\* index past the end, the empty field
AbsentFields ==
    << <<"quux">>, <<"/", "quux">>, <<"person", "/", "age">>,
       <<"foo", "/", "x">>, <<"ints", "/", "2">>, <<>> >>

LeafFields == PresentFields \o AbsentFields

\* every operator of Constraint, with operands that match and that miss
Constraints ==
    << [op |-> "string_equals", arg |-> "bar"],
       [op |-> "string_equals", arg |-> "A"],
       [op |-> "string_not_equals", arg |-> "bar"],
       [op |-> "string_contains", arg |-> "a"],
       [op |-> "string_contains", arg |-> "z"],
       [op |-> "string_contains_all", arg |-> <<"a", "b">>],
       [op |-> "string_contains_any", arg |-> <<"z", "a">>],
       [op |-> "string_does_not_contain", arg |-> "a"],
       [op |-> "string_does_not_contain", arg |-> "z"],
       [op |-> "string_does_not_contain_any", arg |-> <<"y", "z">>],
       [op |-> "string_does_not_contain_any", arg |-> <<"a">>],
       [op |-> "string_contains_all", arg |-> <<>>],
       [op |-> "string_in", arg |-> <<"foo", "bar">>],
       [op |-> "string_not_in", arg |-> <<"foo">>],
       [op |-> "int_equals", arg |-> 1],
       [op |-> "int_equals", arg |-> 2],
       [op |-> "int_not_equals", arg |-> 2],
       [op |-> "int_contains", arg |-> 1],
       [op |-> "int_contains_all", arg |-> <<1, 2>>],
       [op |-> "int_contains_any", arg |-> <<3, 2>>],
       [op |-> "int_does_not_contain", arg |-> 1],
       [op |-> "int_does_not_contain", arg |-> 3],
       [op |-> "int_does_not_contain_any", arg |-> <<3, 4>>],
       [op |-> "int_in", arg |-> <<1, 3>>],
       [op |-> "int_not_in", arg |-> <<2, 3>>],
       [op |-> "int_in_range", arg |-> <<1, 3>>],
       [op |-> "int_in_range", arg |-> <<2, 3>>],
       [op |-> "int_not_in_range", arg |-> <<2, 3>>],
       [op |-> "int_less_than", arg |-> 2],
       [op |-> "int_less_than_inclusive", arg |-> 1],
       [op |-> "int_greater_than", arg |-> 0],
       [op |-> "int_greater_than_inclusive", arg |-> 1],
       [op |-> "float_equals", arg |-> F(3, 0)],
       [op |-> "float_equals", arg |-> F(2, 0)],
       [op |-> "float_not_equals", arg |-> F(3, 1)],
       [op |-> "float_not_equals", arg |-> F(4, 0)],
       [op |-> "float_contains", arg |-> F(2, 0)],
       [op |-> "float_does_not_contain", arg |-> F(3, 0)],
       [op |-> "float_in", arg |-> <<F(3, 0), F(2, 0)>>],
       [op |-> "float_not_in", arg |-> <<F(5, 0)>>],
       [op |-> "float_in_range", arg |-> <<F(2, 0), F(3, 0)>>],
       [op |-> "float_not_in_range", arg |-> <<F(4, 0), F(6, 0)>>],
       [op |-> "float_less_than", arg |-> F(3, 1)],
       [op |-> "float_less_than_inclusive", arg |-> F(3, 0)],
       [op |-> "float_greater_than", arg |-> F(1, 0)],
       [op |-> "float_greater_than_inclusive", arg |-> F(2, 0)],
       [op |-> "bool_equals", arg |-> TRUE],
       [op |-> "bool_equals", arg |-> FALSE] >>

\* children of the three statuses, and two inner nodes without children
ChildConditions ==
    << Leaf(<<"foo">>, "int_equals", 1),
       Leaf(<<"foo">>, "int_equals", 2),
       Leaf(<<"quux">>, "int_equals", 2),
       And(<<>>),
       Or(<<>>) >>

\* every list of at most MaxChildren children, as indices
ChildLists ==
    UNION {[1..n -> 1..Len(ChildConditions)] : n \in 0..MaxChildren}

ChildrenOf(ix) == [i \in 1..Len(ix) |-> ChildConditions[ix[i]]]

Children(cond) ==
    CASE cond.kind = "and"      -> cond.and
      [] cond.kind = "or"       -> cond.or
      [] cond.kind = "at_least" -> cond.conditions
      [] OTHER                  -> <<>>

\* the same node with its children in the order p
Reordered(cond, p) ==
    LET cs == [i \in 1..Len(Children(cond)) |-> Children(cond)[p[i]]]
    IN CASE cond.kind = "and"      -> And(cs)
         [] cond.kind = "or"       -> Or(cs)
         [] cond.kind = "at_least" -> AtLeast(cond.should_minimum_meet, cs)

Orders(n) ==
    {p \in [1..n -> 1..n] : \A i, j \in 1..n : p[i] = p[j] => i = j}

NoResult == [name |-> <<>>, status |-> "Unknown", children |-> <<>>]

EvalCall(cond) ==
    [fn |-> "check_value", cond |-> cond, info |-> EvalFacts, step |-> "input",
     result |-> NoResult, how |-> "none", other |-> NoResult]

EvalInit ==
    /\ EngineNew
    /\ \/ \E ix \in ChildLists : call = EvalCall(And(ChildrenOf(ix)))
       \/ \E ix \in ChildLists : call = EvalCall(Or(ChildrenOf(ix)))
       \/ \E ix \in ChildLists, n \in 0..(MaxChildren + 1) :
             call = EvalCall(AtLeast(n, ChildrenOf(ix)))
       \/ \E i \in 1..Len(LeafFields), k \in 1..Len(Constraints) :
             call = EvalCall(Leaf(LeafFields[i], Constraints[k].op, Constraints[k].arg))

\* cond.check_value(&info)
CheckValue ==
    /\ call.step = "input"
    /\ call' = [call EXCEPT !.step = "checked",
                            !.result = ConditionCheck(call.cond, call.info)]
    /\ UNCHANGED engine

\* the same node with its children rearranged, on the same facts
CheckReordered(p) ==
    /\ call.step = "checked"
    /\ call.cond.kind \in {"and", "or", "at_least"}
    /\ call' = [call EXCEPT !.step = "compared",
                            !.how = "reordered",
                            !.other = ConditionCheck(Reordered(call.cond, p), call.info)]
    /\ UNCHANGED engine

\* the same leaf with its field written with a leading "/"
CheckSlashed ==
    /\ call.step = "checked"
    /\ call.cond.kind = "condition"
    /\ IF call.cond.field = <<>> THEN TRUE ELSE Head(call.cond.field) # "/"
    /\ call' = [call EXCEPT
                  !.step = "compared",
                  !.how = "slashed",
                  !.other = ConditionCheck([call.cond EXCEPT !.field = <<"/">> \o @],
                                           call.info)]
    /\ UNCHANGED engine

EvalNext ==
    \/ CheckValue
    \/ CheckSlashed
    \/ \E p \in Orders(Len(Children(call.cond))) : CheckReordered(p)

EvalSpec == EvalInit /\ [][EvalNext]_vars

(***************************************************************************)
(* SinkSpec: an engine with a registry of custom sinks.  A sink is         *)
(* registered under its type tag with add_event; at dispatch every event   *)
(* that is left is handed to the sink found under the type of the event,   *)
(* after the sink has validated its params.                                *)
(***************************************************************************)
SinkTags == {"custom_event", "email_notification"}

CustomRule ==
    CHOOSE r \in 1..Len(Catalogue) :
       \E i \in 1..Len(Catalogue[r].events) :
          Catalogue[r].events[i].kind = "custom_event"

SinkRules == <<CustomRule, 2>>

\* the facts of the other specifications, and facts that leave the rule of
\* the custom sink Unknown
SinkFacts ==
    FactInputs \cup {[serializable |-> TRUE, tree |-> JObj([name |-> JStr("A")])]}

\* engine.add_event(sink): the sink is kept under sink.get_type()
add_event(ty) ==
    /\ EngineFree
    /\ sinks' = sinks \cup {ty}
    /\ UNCHANGED <<rules, coalescences, now, pc, locals, lastFire, call>>

\* CustomEvent::validate: the param name is required
validate(ty, e) == ty = "custom_event" => "name" \in DOMAIN e.params

\* CustomEvent::trigger: the sink renders name against the facts and keeps
\* "name is: " followed by it
trigger(ty, e, info) ==
    IF ty = "custom_event"
    THEN <<Lit("name is: ")>> \o RenderField(e.params.name, info)
    ELSE <<>>

\* a sink is registered under the type of the event and accepts its params
HasSink(e) == e.kind \in sinks /\ validate(e.kind, e)

RECURSIVE BuildSinkRequests(_, _, _, _)
BuildSinkRequests(rr, ri, ei, info) ==
    IF ri > Len(rr) THEN <<>>
    ELSE IF ei > Len(rr[ri].events) THEN BuildSinkRequests(rr, ri + 1, 1, info)
    ELSE (IF HasSink(rr[ri].events[ei])
          THEN <<[ri |-> ri, ei |-> ei, st |-> "pending",
                  event |-> rr[ri].events[ei], facts |-> info, res |-> <<>>]>>
          ELSE <<>>) \o BuildSinkRequests(rr, ri, ei + 1, info)

SinkDispatch(c) ==
    /\ pc[c] = "coalescing"
    /\ cursor[c].ri > Len(rule_results[c])
    /\ requests' = [requests EXCEPT
                      ![c] = BuildSinkRequests(rule_results[c], 1, 1, facts[c])]
    /\ pc' = [pc EXCEPT ![c] = "dispatching"]
    /\ UNCHANGED <<input, rules, coalescences, now, facts, rule_results, cursor, hit,
                   evictAt, ret, lastFire, call, sinks>>

\* sink.trigger(params, facts) is called for one request and returns
SinkTrigger(c, i, outcome) ==
    /\ pc[c] = "dispatching"
    /\ i \in 1..Len(requests[c])
    /\ requests[c][i].st = "pending"
    /\ requests' = [requests EXCEPT
                      ![c][i].st = outcome,
                      ![c][i].res = IF outcome = "ok"
                                    THEN trigger(requests[c][i].event.kind,
                                                 requests[c][i].event,
                                                 requests[c][i].facts)
                                    ELSE @]
    /\ UNCHANGED <<input, rules, coalescences, now, pc, facts, rule_results, cursor,
                   hit, evictAt, ret, lastFire, call, sinks>>

SinkNext ==
    \/ Tick
    \/ load_rules(SinkRules)
    \/ clear
    \/ \E ty \in SinkTags : add_event(ty)
    \/ \E f \in SinkFacts : RunEvaluate(Owner, f)
    \/ RunEvict(Owner)
    \/ RunLookup(Owner)
    \/ RunDecide(Owner)
    \/ SinkDispatch(Owner)
    \/ \E i \in 1..Len(requests[Owner]), o \in {"ok", "failed"} :
           SinkTrigger(Owner, i, o)
    \/ RunReturn(Owner)
    \/ Drop(Owner)

SinkSpec == Init /\ [][SinkNext]_vars

(***************************************************************************)
(* RenderSpec: Rule::check_value applied to rules whose events carry       *)
(* templates that compile and templates that do not.                       *)
(***************************************************************************)
\* the templates tried for a message, a callback target and a group key
Templates ==
    { <<Lit("m")>>,
      <<Lit("hello "), Var("name")>>,
      <<Unclosed, Lit("age")>>,
      <<Var("name"), Unclosed>> }

\* the conditions of the rules: always Met, and Unknown without an age
RenderConditions ==
    { AtLeast(0, <<>>), Leaf(<<"age">>, "int_in_range", <<20, 25>>) }

\* the rules: a callback with every field templated, then a message
RenderRules ==
    { [conditions |-> cond,
       events |-> <<PostToCallbackUrl(url, msg, Some(1), group),
                    Message(msg2, NoneInt, NoneStr)>>] :
        cond \in RenderConditions, url \in Templates, msg \in Templates,
        group \in {NoneStr} \cup {Some(t) : t \in Templates},
        msg2 \in {<<Lit("bye "), Var("name")>>, <<Unclosed>>} }

\* the facts the rules are checked against
RenderFacts ==
    { JObj([name |-> JStr("A"), age |-> JInt(24)]),
      JObj([name |-> JStr("g")]) }

RenderInit ==
    /\ EngineNew
    /\ call \in { [fn |-> "rule_check", rule |-> r, info |-> f, step |-> "input",
                   result |-> [condition_result |-> NoResult, events |-> <<>>]] :
                  r \in RenderRules, f \in RenderFacts }

\* rule.check_value(&facts)
CheckRule ==
    /\ call.fn = "rule_check"
    /\ call.step = "input"
    /\ call' = [call EXCEPT !.step = "done",
                            !.result = RuleCheck(call.rule, call.info)]
    /\ UNCHANGED engine

RenderNext == CheckRule

RenderSpec == RenderInit /\ [][RenderNext]_vars

(***************************************************************************)
(* ExprSpec: Condition::check_value applied to Eval leaves, alone and      *)
(* under an inner node, on facts with and without a usable age.            *)
(***************************************************************************)
\* the expressions: two constants, the window of the test, a registered and
\* an unregistered function, a value that is no bool, a syntax error
Expressions ==
    { ExprBool(TRUE), ExprBool(FALSE), ExprAgeWindow, ExprCall("my_function"),
      ExprCall("other_function"), ExprAge, ExprSyntax }

Person(age) ==
    JObj([name |-> JStr("A"), age |-> JInt(age), action |-> JStr("coding")])

\* the facts: the ages around the window, and facts that are no object
ExprFacts ==
    <<Person(20), Person(21), Person(24), Person(25), Person(26), JInt(24), JNull>>

\* the nodes an Eval leaf is checked in: alone, and as in the test under an
\* And and an Or with a leaf on the age
ExprConditions(e) ==
    { Eval(e),
      And(<<Leaf(<<"age">>, "int_in_range", <<20, 25>>), Eval(e)>>),
      Or(<<Eval(e), Leaf(<<"age">>, "int_in_range", <<20, 25>>)>>) }

ExprInit ==
    /\ EngineNew
    /\ \E e \in Expressions, i \in 1..Len(ExprFacts) :
          \E c \in ExprConditions(e) :
             call = [fn |-> "check_eval", cond |-> c, expr |-> e,
                     info |-> ExprFacts[i], step |-> "input", result |-> NoResult]

\* cond.check_value(&info, &rhai_engine)
CheckEval ==
    /\ call.fn = "check_eval"
    /\ call.step = "input"
    /\ call' = [call EXCEPT !.step = "checked",
                            !.result = ConditionCheck(call.cond, call.info)]
    /\ UNCHANGED engine

ExprNext == CheckEval

ExprSpec == ExprInit /\ [][ExprNext]_vars

(***************************************************************************)
(* TreeSpec: Condition::check_value applied to trees of depth three, whose *)
(* inner nodes are decided before their last child.                        *)
(***************************************************************************)
\* the children of the root: leaves of the three statuses, an Eval leaf,
\* and inner nodes that are decided by their first child
TreeChildren ==
    << Leaf(<<"foo">>, "int_equals", 1),
       Leaf(<<"foo">>, "int_equals", 2),
       Leaf(<<"quux">>, "int_equals", 2),
       Eval(ExprBool(TRUE)),
       And(<<Leaf(<<"bar">>, "string_equals", "x"),
             Leaf(<<"baz">>, "bool_equals", TRUE)>>),
       Or(<<Leaf(<<"baz">>, "bool_equals", TRUE),
            Leaf(<<"quux">>, "int_equals", 2),
            And(<<>>)>>),
       AtLeast(1, <<Leaf(<<"foo">>, "int_equals", 1),
                    Leaf(<<"bar">>, "string_equals", "x")>>) >>

\* every list of at most MaxChildren of them, as indices
TreeLists == UNION {[1..n -> 1..Len(TreeChildren)] : n \in 0..MaxChildren}

TreeOf(ix) == [i \in 1..Len(ix) |-> TreeChildren[ix[i]]]

TreeCall(cond) ==
    [fn |-> "check_tree", cond |-> cond, info |-> EvalFacts, step |-> "input",
     result |-> NoResult]

TreeInit ==
    /\ EngineNew
    /\ \/ \E ix \in TreeLists : call = TreeCall(And(TreeOf(ix)))
       \/ \E ix \in TreeLists : call = TreeCall(Or(TreeOf(ix)))
       \/ \E ix \in TreeLists, n \in 0..2 : call = TreeCall(AtLeast(n, TreeOf(ix)))

\* cond.check_value(&info)
CheckTree ==
    /\ call.fn = "check_tree"
    /\ call.step = "input"
    /\ call' = [call EXCEPT !.step = "checked",
                            !.result = ConditionCheck(call.cond, call.info)]
    /\ UNCHANGED engine

TreeNext == CheckTree

TreeSpec == TreeInit /\ [][TreeNext]_vars

(***************************************************************************)
(* RangeSpec: IntInRange and IntNotInRange applied to the same bounds and  *)
(* value, for bounds and values at and around the ends of i64.             *)
(***************************************************************************)
\* the bounds tried for start and end: any i64
RangeBounds == {I64Min, 0, 1, 2, 3, I64Max}

\* the values: integers over the whole range of JSON integers, and values
\* that are no integers
RangeValues ==
    << JInt(I64Min), JInt(0 - 1), JInt(0), JInt(1), JInt(2), JInt(3), JInt(4),
       JInt(I64Max), JInt(I64Max + 1), JInt(U64Max),
       JStr("bar"), JStr("2"), JFloat(F(4, 0)), JFloat(F(5, 0)), JBool(TRUE),
       JNull, JArr(<<JInt(2)>>), JObj([foo |-> JInt(2)]) >>

RangeInit ==
    /\ EngineNew
    /\ \E start \in RangeBounds, end \in RangeBounds, i \in 1..Len(RangeValues) :
          call = [fn |-> "int_range", start |-> start, end |-> end,
                  value |-> RangeValues[i], step |-> "input",
                  inside |-> "Unknown", outside |-> "Unknown"]

\* Constraint::IntInRange(start, end).check_value(v) and
\* Constraint::IntNotInRange(start, end).check_value(v)
CheckRange ==
    /\ call.fn = "int_range"
    /\ call.step = "input"
    /\ call' = [call EXCEPT
                  !.step = "checked",
                  !.inside = ConstraintCheck([op |-> "int_in_range",
                                              arg |-> <<call.start, call.end>>],
                                             call.value),
                  !.outside = ConstraintCheck([op |-> "int_not_in_range",
                                               arg |-> <<call.start, call.end>>],
                                              call.value)]
    /\ UNCHANGED engine

RangeNext == CheckRange

RangeSpec == RangeInit /\ [][RangeNext]_vars

(***************************************************************************)
(* GroupSpec: an engine whose rules carry several coalesced events of one  *)
(* group, in one rule and in two rules.                                    *)
(***************************************************************************)
GroupRule == Len(Catalogue)

\* the registries loaded: the rule with four coalesced events, before and
\* after the rule with the callback of group g
GroupLists == {<<GroupRule>>, <<GroupRule, 1>>, <<1, GroupRule>>}

GroupNext ==
    \/ Tick
    \/ \E rs \in GroupLists : load_rules(rs)
    \/ \E f \in FactInputs : RunEvaluate(Owner, f)
    \/ RunEvict(Owner)
    \/ RunLookup(Owner)
    \/ RunDecide(Owner)
    \/ RunDispatch(Owner)
    \/ \E i \in 1..Len(requests[Owner]), o \in {"ok", "failed"} :
           DispatchComplete(Owner, i, o)
    \/ RunReturn(Owner)
    \/ Drop(Owner)

GroupSpec == Init /\ [][GroupNext]_vars

TypeOK ==
    /\ now \in 0..MaxTime
    /\ Len(rules) <= MaxRules
    /\ \A c \in Callers : pc[c] \in {"idle", "evaluated", "coalescing", "decide",
                                      "dispatching", "returned"}

(***************************************************************************)
(* Vocabulary of the properties.                                           *)
(***************************************************************************)
\* the step in which the coalescence loop finishes with the event at the cursor
Processes(c) ==
    \/ RunLookup(c) /\ ~Coalesced(CurrentEvent(c))
    \/ RunDecide(c)

\* that step keeps the event in the rule result and moves on
Keeps(c) ==
    /\ rule_results'[c] = rule_results[c]
    /\ cursor'[c] = Normalise(rule_results[c], cursor[c].ri, cursor[c].ei + 1)
    /\ pc'[c] = "coalescing"

\* that step removes the event from the rule result
Drops(c) ==
    /\ rule_results'[c] =
          [rule_results[c] EXCEPT ![cursor[c].ri].events = RemoveAt(@, cursor[c].ei)]
    /\ pc'[c] = "coalescing"

\* ticks of the clock in a TTL of t seconds
TtlTicks(t) == t * TicksPerSec

(***************************************************************************)
(* C1: an event with group g and a TTL of t seconds, of a Met rule, fires  *)
(* when its group never fired; is dropped by a run that evicts less than t *)
(* seconds after the group last fired with that TTL; and fires again in a  *)
(* run that evicts t seconds or more after that firing.                    *)
(***************************************************************************)
C1_Step(c) ==
    RunDecide(c) =>
        LET e  == CurrentEvent(c)
            lf == lastFire[e.coalescence_group.v]
        IN /\ ~lf.fired => Keeps(c)
           /\ lf.fired /\ lf.ttl = e.coalescence.v
                 /\ evictAt[c] - lf.at < TtlTicks(e.coalescence.v) => Drops(c)
           /\ lf.fired /\ lf.ttl = e.coalescence.v
                 /\ evictAt[c] - lf.at >= TtlTicks(e.coalescence.v) => Keeps(c)

C1_CoalescenceWindow == [][\A c \in Callers : C1_Step(c)]_vars

\* a run is about to fire the callback of group g again: the group fired
\* with a TTL of one second, and this run evicted a second or more later
C1_Witness ==
    /\ pc[Owner] = "decide"
    /\ CurrentEvent(Owner).kind = "post_to_callback_url"
    /\ CurrentEvent(Owner).coalescence_group = Some(GroupG)
    /\ CurrentEvent(Owner).coalescence = Some(1)
    /\ lastFire[GroupG].fired
    /\ lastFire[GroupG].ttl = 1
    /\ evictAt[Owner] - lastFire[GroupG].at >= TtlTicks(1)
    /\ ~hit[Owner]

(***************************************************************************)
(* C2: as claimed, every event of a Met rule that carries a group key is   *)
(* dropped when the cache holds an entry for the key, and otherwise fires  *)
(* after inserting (key -> now, its own TTL).                              *)
(***************************************************************************)
InsertsEntry(c, g, ttl) ==
    /\ DOMAIN coalescences' = DOMAIN coalescences \cup {g}
    /\ coalescences'[g] = [start |-> now, expiration |-> ttl]
    /\ \A k \in DOMAIN coalescences \ {g} : coalescences'[k] = coalescences[k]

C2_Original ==
    [][\A c \in Callers :
         Processes(c) /\ CurrentEvent(c).coalescence_group.some =>
            LET e == CurrentEvent(c)
            IN IF e.coalescence_group.v \in DOMAIN coalescences
               THEN Drops(c) /\ coalescences' = coalescences
               ELSE Keeps(c)
                    /\ InsertsEntry(c, e.coalescence_group.v, e.coalescence.v)]_vars

(***************************************************************************)
(* C2 amended: every event of a Met rule that carries both a group key and *)
(* a TTL is dropped, leaving the cache as it is, when the cache holds an   *)
(* entry for the key, and otherwise fires after inserting                  *)
(* (key -> now, its own TTL); an event with a group key but no TTL fires   *)
(* without any lookup or insertion.                                        *)
(***************************************************************************)
C2_GroupLookup ==
    [][\A c \in Callers :
         Processes(c) /\ CurrentEvent(c).coalescence_group.some =>
            LET e == CurrentEvent(c)
            IN IF ~e.coalescence.some
               THEN Keeps(c) /\ coalescences' = coalescences
               ELSE IF e.coalescence_group.v \in DOMAIN coalescences
               THEN Drops(c) /\ coalescences' = coalescences
               ELSE Keeps(c)
                    /\ InsertsEntry(c, e.coalescence_group.v, e.coalescence.v)]_vars

\* a run has dropped the longer-lived callback of group g on a live entry
\* and returns a rule result that lists the group's message without a TTL
C2_Witness ==
    /\ pc[Owner] = "dispatching"
    /\ rules = <<3>>
    /\ GroupG \in DOMAIN coalescences
    /\ coalescences[GroupG].start < evictAt[Owner]
    /\ Len(rule_results[Owner]) = 1
    /\ Len(rule_results[Owner][1].events) = 2
    /\ rule_results[Owner][1].events[1].coalescence_group = Some(GroupG)
    /\ rule_results[Owner][1].events[1].coalescence = NoneInt

(***************************************************************************)
(* C3: as claimed, the eviction step removes exactly the entries whose     *)
(* elapsed time exceeds their TTL, so that an entry whose elapsed time     *)
(* equals its TTL stays.                                                   *)
(***************************************************************************)
C3_Original ==
    [][\A c \in Callers :
         RunEvict(c) =>
            /\ DOMAIN coalescences' \subseteq DOMAIN coalescences
            /\ \A k \in DOMAIN coalescences :
                  /\ k \notin DOMAIN coalescences' <=>
                        now - coalescences[k].start > TtlTicks(coalescences[k].expiration)
                  /\ k \in DOMAIN coalescences' => coalescences'[k] = coalescences[k]]_vars

(***************************************************************************)
(* C3 amended: the eviction step removes exactly the entries whose elapsed *)
(* time has reached their own TTL (elapsed >= TTL); an entry whose elapsed *)
(* time is below its TTL stays unchanged, and an event of its group that   *)
(* the same run looks up is dropped.                                       *)
(***************************************************************************)
C3_Eviction ==
    [][\A c \in Callers :
         /\ RunEvict(c) =>
               /\ DOMAIN coalescences' \subseteq DOMAIN coalescences
               /\ \A k \in DOMAIN coalescences :
                     /\ k \notin DOMAIN coalescences' <=>
                           now - coalescences[k].start >= TtlTicks(coalescences[k].expiration)
                     /\ k \in DOMAIN coalescences' => coalescences'[k] = coalescences[k]
         /\ RunDecide(c) =>
               LET g == CurrentEvent(c).coalescence_group.v
               IN g \in DOMAIN coalescences
                  /\ evictAt[c] - coalescences[g].start < TtlTicks(coalescences[g].expiration)
                  => Drops(c)]_vars

\* an eviction step has just removed an entry at the very end of its TTL
C3_Witness ==
    /\ pc[Owner] = "coalescing"
    /\ lastFire[GroupG].fired
    /\ evictAt[Owner] - lastFire[GroupG].at = TtlTicks(lastFire[GroupG].ttl)
    /\ GroupG \notin DOMAIN coalescences
    /\ cursor[Owner] = [ri |-> 1, ei |-> 1]
    /\ Len(rule_results[Owner]) > 0

(***************************************************************************)
(* C4: an event without a group key is kept by the coalescence loop        *)
(* whatever the cache holds, and the cache is left as it was; when run()   *)
(* returns, the events without a group key of every Met rule are listed,   *)
(* all of them and in their order.                                         *)
(***************************************************************************)
RECURSIVE Ungrouped(_)
Ungrouped(events) ==
    IF events = <<>> THEN <<>>
    ELSE (IF Head(events).coalescence_group.some THEN <<>> ELSE <<Head(events)>>)
         \o Ungrouped(Tail(events))

\* the indices of the registered rules that are Met on the facts, ascending
MetIndices(info) ==
    {i \in 1..Len(rules) :
        ConditionCheck(Catalogue[rules[i]].conditions, info).status = "Met"}

RECURSIVE NthSmallest(_, _)
NthSmallest(S, n) ==
    LET m == CHOOSE x \in S : \A y \in S : x <= y
    IN IF n = 1 THEN m ELSE NthSmallest(S \ {m}, n - 1)

C4_Ungrouped ==
    [][\A c \in Callers :
         /\ Processes(c) /\ ~CurrentEvent(c).coalescence_group.some =>
               Keeps(c) /\ coalescences' = coalescences
         /\ RunReturn(c) =>
               /\ Len(ret'[c].value) = Cardinality(MetIndices(facts[c]))
               /\ \A k \in 1..Len(ret'[c].value) :
                     Ungrouped(ret'[c].value[k].events) =
                     Ungrouped(RuleCheck(Catalogue[rules[NthSmallest(MetIndices(facts[c]), k)]],
                                         facts[c]).events)]_vars

\* the mail with a TTL but no group key is listed by a run although the
\* cache holds live entries
C4_Witness ==
    /\ pc[Owner] = "returned"
    /\ ret[Owner].st = "ok"
    /\ DOMAIN coalescences = GroupKeys
    /\ \E k \in 1..Len(ret[Owner].value) :
          /\ Len(ret[Owner].value[k].events) = 1
          /\ ret[Owner].value[k].events[1].kind = "email_notification"
          /\ ret[Owner].value[k].events[1].coalescence = Some(1)
          /\ ~ret[Owner].value[k].events[1].coalescence_group.some

(***************************************************************************)
(* C5: run() returns one RuleResult for each registered rule whose root    *)
(* status is Met, none for any other rule, in registration order: the k-th *)
(* result carries the condition result of the k-th Met rule.               *)
(***************************************************************************)
C5_MetRulesInOrder ==
    [][\A c \in Callers :
         RunReturn(c) =>
            /\ ret'[c].st = "ok"
            /\ Len(ret'[c].value) = Cardinality(MetIndices(facts[c]))
            /\ \A k \in 1..Len(ret'[c].value) :
                  /\ ret'[c].value[k].condition_result.status = "Met"
                  /\ ret'[c].value[k].condition_result =
                        ConditionCheck(
                           Catalogue[rules[NthSmallest(MetIndices(facts[c]), k)]].conditions,
                           facts[c])]_vars

\* a run over a rule whose root is Unknown followed by a Met rule returned
\* the result of the Met rule only
C5_Witness ==
    /\ pc[Owner] = "returned"
    /\ ret[Owner].st = "ok"
    /\ rules = <<3, 2>>
    /\ ConditionCheck(Catalogue[3].conditions, facts[Owner]).status = "Unknown"
    /\ Len(ret[Owner].value) = 1
    /\ ret[Owner].value[1].condition_result.name =  <<"At least meet", "0", "of", "0">>

(***************************************************************************)
(* C6: run() returns an error exactly when its facts cannot be converted   *)
(* to a value tree, and then nothing of the run has happened: no rule      *)
(* result exists and no request was built.  With convertible facts the run *)
(* goes on and returns Ok with its list of rule results.                   *)
(***************************************************************************)
C6_ErrorOnlyOnFacts ==
    \A c \in Callers :
       /\ pc[c] = "returned" =>
             /\ ret[c].st = "err" <=> ~input[c].serializable
             /\ ret[c].st = "err" => rule_results[c] = <<>> /\ requests[c] = <<>>
             /\ ret[c].st # "err" => ret[c] = [st |-> "ok", value |-> rule_results[c]]
       /\ pc[c] \notin {"idle", "returned"} => input[c].serializable

\* a run on facts that cannot be converted has returned its error, with a
\* rule registered and a live entry in the cache
C6_Witness ==
    /\ pc[Owner] = "returned"
    /\ ~input[Owner].serializable
    /\ ret[Owner].st = "err"
    /\ rules # <<>>
    /\ DOMAIN coalescences # {}

(***************************************************************************)
(* C7: when a dispatch of a run fails, every request of the run still      *)
(* completes, every event with a sink that survived coalescence has its    *)
(* request, and run() returns Ok with the list of rule results it had when *)
(* the dispatches started.                                                 *)
(***************************************************************************)
\* the events of a list of rule results that have a sink, as positions
SinkPositions(rr) ==
    {p \in (1..Len(rr)) \X (1..3) :
        /\ p[2] <= Len(rr[p[1]].events)
        /\ \/ rr[p[1]].events[p[2]].kind = "post_to_callback_url"
           \/ /\ rr[p[1]].events[p[2]].kind = "email_notification"
              /\ rr[p[1]].events[p[2]].to # <<>>}

C7_Returned ==
    \A c \in Callers :
       pc[c] = "returned" /\ (\E i \in 1..Len(requests[c]) : requests[c][i].st = "failed") =>
          /\ ret[c] = [st |-> "ok", value |-> rule_results[c]]
          /\ \A i \in 1..Len(requests[c]) : requests[c][i].st \in {"ok", "failed"}
          /\ {<<requests[c][i].ri, requests[c][i].ei>> : i \in 1..Len(requests[c])}
                = SinkPositions(rule_results[c])

\* the completion of a dispatch, with either outcome, leaves the rule
\* results of the run and every other request of the run as they were
C7_Completion(c) ==
    \A i \in 1..Len(requests[c]), o \in {"ok", "failed"} :
       DispatchComplete(c, i, o) =>
          /\ rule_results'[c] = rule_results[c]
          /\ Len(requests'[c]) = Len(requests[c])
          /\ \A j \in 1..Len(requests[c]) :
                /\ requests'[c][j].ri = requests[c][j].ri
                /\ requests'[c][j].ei = requests[c][j].ei
                /\ j # i => requests'[c][j].st = requests[c][j].st

C7_FailureDoesNotAbort ==
    []C7_Returned /\ [][\A c \in Callers : C7_Completion(c)]_vars

\* a run has returned two rule results although the first of its two
\* dispatches failed; the second one succeeded
C7_Witness ==
    /\ pc[Owner] = "returned"
    /\ Len(requests[Owner]) = 2
    /\ requests[Owner][1].st = "failed"
    /\ requests[Owner][2].st = "ok"
    /\ ret[Owner].st = "ok"
    /\ Len(ret[Owner].value) = 2

(***************************************************************************)
(* C8: run() has returned only when every dispatch it started has          *)
(* completed, and no caller holds a result, partial or not, before that.   *)
(***************************************************************************)
C8_BulkSynchronization ==
    \A c \in Callers :
       /\ pc[c] = "returned" =>
             \A i \in 1..Len(requests[c]) : requests[c][i].st # "pending"
       /\ pc[c] # "returned" => ret[c] = NoRet

\* a run that started two dispatches has returned, both completed
C8_Witness ==
    /\ pc[Owner] = "returned"
    /\ ret[Owner].st = "ok"
    /\ Len(requests[Owner]) = 2
    /\ \A i \in 1..2 : requests[Owner][i].st = "ok"

(***************************************************************************)
(* C9: as claimed, the events listed in the returned rule results and the  *)
(* dispatches of the run correspond one to one.                            *)
(***************************************************************************)
\* how many requests of the run dispatch the event at position <<ri, ei>>
RequestsFor(c, ri, ei) ==
    Cardinality({i \in 1..Len(requests[c]) :
                    requests[c][i].ri = ri /\ requests[c][i].ei = ei})

\* every request dispatches an event that the returned list holds
RequestsAreListed(c) ==
    \A i \in 1..Len(requests[c]) :
       /\ requests[c][i].ri \in 1..Len(ret[c].value)
       /\ requests[c][i].ei \in 1..Len(ret[c].value[requests[c][i].ri].events)

C9_Original ==
    \A c \in Callers :
       pc[c] = "returned" /\ ret[c].st = "ok" =>
          /\ RequestsAreListed(c)
          /\ \A ri \in 1..Len(ret[c].value) :
                \A ei \in 1..Len(ret[c].value[ri].events) :
                   RequestsFor(c, ri, ei) = 1

(***************************************************************************)
(* C9 amended: every event dispatched in the run is listed in exactly one  *)
(* returned rule result and was dispatched once; a listed callback and a   *)
(* listed mail with a recipient were dispatched exactly once; a listed     *)
(* message and a listed mail without recipients were not dispatched.       *)
(***************************************************************************)
C9_ListedAndDispatched ==
    \A c \in Callers :
       pc[c] = "returned" /\ ret[c].st = "ok" =>
          /\ RequestsAreListed(c)
          /\ \A ri \in 1..Len(ret[c].value) :
                \A ei \in 1..Len(ret[c].value[ri].events) :
                   LET e == ret[c].value[ri].events[ei]
                   IN RequestsFor(c, ri, ei) =
                         IF \/ e.kind = "post_to_callback_url"
                            \/ e.kind = "email_notification" /\ e.to # <<>>
                         THEN 1 ELSE 0

\* a run has returned a rule result that lists a message, a mail without
\* recipients and a callback, and only the callback was dispatched
C9_Witness ==
    /\ pc[Owner] = "returned"
    /\ ret[Owner].st = "ok"
    /\ Len(ret[Owner].value) = 1
    /\ Len(ret[Owner].value[1].events) = 3
    /\ ret[Owner].value[1].events[1].kind = "message"
    /\ ret[Owner].value[1].events[2].kind = "email_notification"
    /\ ret[Owner].value[1].events[3].kind = "post_to_callback_url"
    /\ Len(requests[Owner]) = 1
    /\ requests[Owner][1].ei = 3

(***************************************************************************)
(* C10: with several callers on one engine, at most one run is between    *)
(* its evaluation and its return at any time, so the eviction, lookups and *)
(* inserts of two runs never interleave; and no run fires an event for a   *)
(* group key while the TTL window of the key's last firing is open.        *)
(***************************************************************************)
InRun(c) == pc[c] # "idle"

C10_Exclusive ==
    \A c, d \in Callers : InRun(c) /\ InRun(d) => c = d

C10_NoDoubleFire(c) ==
    RunDecide(c) /\ ~hit[c] =>
       LET lf == lastFire[CurrentEvent(c).coalescence_group.v]
       IN lf.fired => now - lf.at >= TtlTicks(lf.ttl)

C10_NoDoubleFireAlways == [][\A c \in Callers : C10_NoDoubleFire(c)]_vars

C10_SingleWriter == []C10_Exclusive /\ C10_NoDoubleFireAlways

\* the run of one caller is about to drop an event whose group key another
\* caller's run fired less than a TTL before this run's eviction
C10_Witness ==
    \E c \in Callers :
       /\ pc[c] = "decide"
       /\ hit[c]
       /\ LET lf == lastFire[CurrentEvent(c).coalescence_group.v]
          IN /\ lf.fired
             /\ lf.by \in Callers \ {c}
             /\ evictAt[c] - lf.at < TtlTicks(lf.ttl)

(***************************************************************************)
(* C11: a & b is Met exactly when both are Met, NotMet exactly when one of *)
(* them is NotMet, and Unknown in every other case; a | b is Met exactly   *)
(* when one of them is Met, NotMet exactly when both are NotMet, and       *)
(* Unknown in every other case; !a swaps Met and NotMet and keeps Unknown. *)
(***************************************************************************)
C11_StatusTables ==
    /\ call.op = "bitand" =>
          /\ call.out.x = "Met" <=> call.a = "Met" /\ call.b = "Met"
          /\ call.out.x = "NotMet" <=> call.a = "NotMet" \/ call.b = "NotMet"
          /\ call.out.x = "Unknown" <=>
                /\ "Unknown" \in {call.a, call.b}
                /\ "NotMet" \notin {call.a, call.b}
    /\ call.op = "bitor" =>
          /\ call.out.x = "Met" <=> call.a = "Met" \/ call.b = "Met"
          /\ call.out.x = "NotMet" <=> call.a = "NotMet" /\ call.b = "NotMet"
          /\ call.out.x = "Unknown" <=>
                /\ "Unknown" \in {call.a, call.b}
                /\ "Met" \notin {call.a, call.b}
    /\ call.op = "not" =>
          /\ call.a = "Met" => call.out.x = "NotMet"
          /\ call.a = "NotMet" => call.out.x = "Met"
          /\ call.a = "Unknown" => call.out.x = "Unknown"

\* NotMet & Unknown has been computed, and is NotMet
C11_Witness ==
    /\ call.op = "bitand"
    /\ call.a = "NotMet"
    /\ call.b = "Unknown"
    /\ call.out.x = "NotMet"

(***************************************************************************)
(* C12: & and | are commutative and associative over all statuses, and     *)
(* !!a is a.                                                               *)
(***************************************************************************)
C12_StatusLaws ==
    /\ call.op \in {"bitand", "bitor"} =>
          /\ call.out.x = call.out.swapped
          /\ call.out.left = call.out.right
    /\ call.op = "not" => call.out.twice = call.a

\* (NotMet | Met) | Unknown and NotMet | (Met | Unknown) have been computed
C12_Witness ==
    /\ call.op = "bitor"
    /\ call.a = "NotMet"
    /\ call.b = "Met"
    /\ call.c = "Unknown"
    /\ call.out.left = "Met"
    /\ call.out.right = "Met"

(***************************************************************************)
(* C13: an And node is Met without children, NotMet as soon as one child   *)
(* is NotMet, else Unknown as soon as one child is Unknown, else Met; an   *)
(* Or node is NotMet without children, Met as soon as one child is Met,    *)
(* else Unknown as soon as one child is Unknown, else NotMet; and the      *)
(* status of either is the same for every order of the children.           *)
(***************************************************************************)
ChildStatuses(r) == {r.children[i].status : i \in 1..Len(r.children)}

C13_AndOrFold ==
    call.fn = "check_value" /\ call.step # "input" =>
       LET r == call.result
           S == ChildStatuses(r)
       IN /\ Len(r.children) = Len(Children(call.cond))
          /\ call.cond.kind = "and" =>
                r.status = IF "NotMet" \in S THEN "NotMet"
                           ELSE IF "Unknown" \in S THEN "Unknown"
                           ELSE "Met"
          /\ call.cond.kind = "or" =>
                r.status = IF "Met" \in S THEN "Met"
                           ELSE IF "Unknown" \in S THEN "Unknown"
                           ELSE "NotMet"
          /\ call.cond.kind \in {"and", "or"} /\ call.how = "reordered" =>
                call.other.status = r.status

\* And over an Unknown, a Met and a NotMet child is NotMet, and so is the
\* same node with the NotMet child first
C13_Witness ==
    /\ call.fn = "check_value"
    /\ call.cond.kind = "and"
    /\ call.how = "reordered"
    /\ Len(call.result.children) = 3
    /\ call.result.children[1].status = "Unknown"
    /\ call.result.children[2].status = "Met"
    /\ call.result.children[3].status = "NotMet"
    /\ call.other.children[1].status = "NotMet"
    /\ call.result.status = "NotMet"

IsAbsent(field) == \E i \in 1..Len(AbsentFields) : AbsentFields[i] = field

IsLeafCall == call.fn = "check_value" /\ call.step # "input" /\ call.cond.kind = "condition"

C15_AbsentIsUnknown ==
    IsLeafCall /\ IsAbsent(call.cond.field) =>
       /\ call.result.status = "Unknown"
       /\ call.how = "slashed" => call.other.status = "Unknown"

\* a leaf on the absent field quux has been evaluated with an operator that
\* is Met on every array without the operand: it is Unknown
C15_Witness ==
    /\ IsLeafCall
    /\ call.cond.field = <<"quux">>
    /\ call.cond.constraint = [op |-> "string_does_not_contain", arg |-> "z"]
    /\ call.result.status = "Unknown"

(***************************************************************************)
(* C16: as claimed, a leaf whose field resolves to a value of a shape or   *)
(* type that its operator does not take is NotMet: a scalar operator on a  *)
(* value of another type or on an array, a collection operator on a value  *)
(* that is not an array or on an array of elements of another type.        *)
(***************************************************************************)
StringOperators ==
    {"string_equals", "string_not_equals", "string_contains", "string_contains_all",
     "string_contains_any", "string_does_not_contain", "string_does_not_contain_any",
     "string_in", "string_not_in"}

FloatOperators ==
    {"float_equals", "float_not_equals", "float_contains", "float_does_not_contain",
     "float_in", "float_not_in", "float_in_range", "float_not_in_range",
     "float_less_than", "float_less_than_inclusive", "float_greater_than",
     "float_greater_than_inclusive"}

CollectionOperators ==
    {"string_contains", "string_contains_all", "string_contains_any",
     "string_does_not_contain", "string_does_not_contain_any",
     "int_contains", "int_contains_all", "int_contains_any",
     "int_does_not_contain", "int_does_not_contain_any",
     "float_contains", "float_does_not_contain"}

\* the types of value an operator works on: a float operator takes every number
Accepts(op) ==
    IF op \in StringOperators THEN {"string"}
    ELSE IF op \in FloatOperators THEN {"float", "int"}
    ELSE IF op = "bool_equals" THEN {"bool"}
    ELSE {"int"}

Compatible(op, v) ==
    IF op \in CollectionOperators
    THEN v.t = "array"
         /\ (v.v = <<>> \/ \E i \in 1..Len(v.v) : v.v[i].t \in Accepts(op))
    ELSE v.t \in Accepts(op)

\* the leaf names a member of the facts directly
OnMember ==
    /\ IsLeafCall
    /\ Len(call.cond.field) = 1
    /\ call.cond.field[1] \in DOMAIN call.info.v

Member == call.info.v[call.cond.field[1]]

C16_Original ==
    OnMember /\ ~Compatible(call.cond.constraint.op, Member) =>
       call.result.status = "NotMet"

C18_RegistryStep ==
    /\ coalescences' # coalescences => \E c \in Callers : RunEvict(c) \/ RunDecide(c)
    /\ (\E r \in RuleIds : add_rule(r)) => coalescences' = coalescences
    /\ (\E rs \in RuleLists : add_rules(rs) \/ load_rules(rs)) =>
          coalescences' = coalescences
    /\ clear => coalescences' = coalescences

C18_WindowKept ==
    \A g \in GroupKeys :
       lastFire[g].fired /\ now - lastFire[g].at < TtlTicks(lastFire[g].ttl) =>
          /\ g \in DOMAIN coalescences
          /\ coalescences[g] = [start |-> lastFire[g].at, expiration |-> lastFire[g].ttl]

C18_CacheOnlyInRun == []C18_WindowKept /\ [][C18_RegistryStep]_vars

\* group g fired for rule 1 with a TTL of one second; the registry has been
\* replaced since, and a run on the new rules finds the group suppressed
C18_Witness ==
    /\ pc[Owner] = "decide"
    /\ hit[Owner]
    /\ rules = <<2, 3>>
    /\ CurrentEvent(Owner).coalescence_group.v = GroupG
    /\ lastFire[GroupG].fired
    /\ lastFire[GroupG].ttl = 1

(***************************************************************************)
(* C19: add_rule appends its rule, add_rules appends its list in order,    *)
(* load_rules replaces the registry by its list, clear empties it, and no  *)
(* other step, of run() in particular, changes the registry.               *)
(***************************************************************************)
C19_Step ==
    /\ \A r \in RuleIds : add_rule(r) => rules' = rules \o <<r>>
    /\ \A rs \in RuleLists : add_rules(rs) =>
          /\ SubSeq(rules', 1, Len(rules)) = rules
          /\ SubSeq(rules', Len(rules) + 1, Len(rules')) = rs
    /\ \A rs \in RuleLists : load_rules(rs) => rules' = rs
    /\ clear => rules' = <<>>
    /\ rules' # rules => \A c \in Callers : pc[c] = "idle" /\ pc'[c] = "idle"

C19_RegistryInOrder == [][C19_Step]_vars

\* rule 2 and then rule 1 were added one by one, and a run on them has
\* returned with the registry as it was
C19_Witness ==
    /\ rules = <<2, 1>>
    /\ pc[Owner] = "returned"
    /\ ret[Owner].st = "ok"
    /\ Len(ret[Owner].value) = 2

(***************************************************************************)
(* C20: with a sink registered under custom_event, a run in which the rule *)
(* of the custom event is Met calls the trigger of that sink exactly once, *)
(* with the params of the event and the facts of the run; a run in which   *)
(* that rule is not Met, or not registered, does not call it.              *)
(***************************************************************************)
CustomRequests(c) ==
    {i \in 1..Len(requests[c]) : requests[c][i].event.kind = "custom_event"}

CustomRuleMet(c) ==
    /\ \E i \in 1..Len(rules) : rules[i] = CustomRule
    /\ ConditionCheck(Catalogue[CustomRule].conditions, input[c].tree).status = "Met"

Broken(template) == \E i \in 1..Len(template) : template[i].k = "open"

\* the field as the fired event must carry it
Expected(template, info) ==
    IF Broken(template) THEN template ELSE RenderTokens(template, info)

C21_RenderFailure ==
    (call.fn = "rule_check" /\ call.step = "done") =>
        LET evs == call.rule.events
            out == call.result.events
        IN /\ call.result.condition_result.status \in Status
           /\ call.result.condition_result =
                 ConditionCheck(call.rule.conditions, call.info)
           /\ Len(out) = Len(evs)
           /\ \A i \in 1..Len(evs) :
                 /\ out[i].kind = evs[i].kind
                 /\ out[i].coalescence = evs[i].coalescence
                 /\ out[i].message = Expected(evs[i].message, call.info)
                 /\ evs[i].kind = "post_to_callback_url" =>
                       out[i].callback_url = Expected(evs[i].callback_url, call.info)
                 /\ out[i].coalescence_group.some = evs[i].coalescence_group.some
                 /\ evs[i].coalescence_group.some =>
                       out[i].coalescence_group.v =
                          Expected(evs[i].coalescence_group.v, call.info)

\* the message of the callback does not compile and is kept, while its
\* target, its group key and the message of the next event are rendered
C21_Witness ==
    /\ call.fn = "rule_check"
    /\ call.step = "done"
    /\ call.rule.events[1].message = <<Unclosed, Lit("age")>>
    /\ call.result.events[1].message = <<Unclosed, Lit("age")>>
    /\ call.rule.events[1].callback_url = <<Lit("hello "), Var("name")>>
    /\ call.result.events[1].callback_url = <<Lit("hello "), Lit("A")>>
    /\ call.rule.events[1].coalescence_group = Some(<<Lit("hello "), Var("name")>>)
    /\ call.result.events[1].coalescence_group = Some(<<Lit("hello "), Lit("A")>>)
    /\ call.result.events[2].message = <<Lit("bye "), Lit("A")>>
    /\ call.result.condition_result.status = "Met"


(***************************************************************************)
(* C22: an Eval leaf is Met only when the evaluator returns true for the   *)
(* expression with the facts bound; a failure of the evaluator (parse      *)
(* error, runtime error, a result that is no bool) gives NotMet and no     *)
(* error; an Eval leaf is never Unknown.                                   *)
(***************************************************************************)
\* the results of the Eval leaves in a result tree of depth at most two
EvalResults(r) ==
    (IF r.name = <<"Eval">> THEN {r} ELSE {})
       \cup {r.children[i] : i \in {j \in 1..Len(r.children) :
                                      r.children[j].name = <<"Eval">>}}

C22_EvalLeaf ==
    (call.fn = "check_eval" /\ call.step = "checked") =>
        LET out == eval_with_scope(Some(call.info), call.expr)
        IN /\ EvalResults(call.result) # {}
           /\ \A r \in EvalResults(call.result) :
                 /\ r.status \in {"Met", "NotMet"}
                 /\ r.status = "Met" <=> (out.ok /\ out.v)
                 /\ ~out.ok => r.status = "NotMet"
                 /\ r.children = <<>>

\* the expression is no bool, and the leaf under the And is NotMet next to
\* a Met leaf
C22_Witness ==
    /\ call.fn = "check_eval"
    /\ call.step = "checked"
    /\ call.expr = ExprAge
    /\ call.cond.kind = "and"
    /\ eval_with_scope(Some(call.info), call.expr).err = "mismatch"
    /\ call.result.children[1].status = "Met"
    /\ call.result.children[2].status = "NotMet"
    /\ call.result.status = "NotMet"


(***************************************************************************)
(* C23: evaluation never stops early.  The result tree has the shape of    *)
(* the condition tree: every And, Or and AtLeast result has one child      *)
(* result per child condition, in the same order, and each child result    *)
(* carries the status of that child, also when an earlier child had        *)
(* already decided the parent.                                             *)
(***************************************************************************)
RECURSIVE SameShape(_, _, _)
\* res mirrors cond, and each of its children is the result of that child
SameShape(cond, res, info) ==
    /\ Len(res.children) = Len(Children(cond))
    /\ \A i \in 1..Len(Children(cond)) :
          /\ res.children[i].name = ConditionCheck(Children(cond)[i], info).name
          /\ res.children[i].status = ConditionCheck(Children(cond)[i], info).status
          /\ SameShape(Children(cond)[i], res.children[i], info)

C23_NoShortCircuit ==
    (call.fn = "check_tree" /\ call.step = "checked") =>
        SameShape(call.cond, call.result, call.info)

\* an And that its first child decides: the second child is evaluated and
\* Met, and the third, an Or decided by its first child, has all its three
\* children
C23_Witness ==
    /\ call.fn = "check_tree"
    /\ call.step = "checked"
    /\ call.cond.kind = "and"
    /\ Len(call.result.children) = 3
    /\ call.result.children[1].status = "NotMet"
    /\ call.result.children[2].status = "Met"
    /\ call.result.children[3].name = <<"Or">>
    /\ call.result.children[3].children[1].status = "Met"
    /\ call.result.children[3].children[2].status = "Unknown"
    /\ Len(call.result.children[3].children) = 3
    /\ call.result.status = "NotMet"


(***************************************************************************)
(* C24: for every integer fact value v and bounds (start, end), IntInRange *)
(* is Met exactly when start <= v <= end, and IntNotInRange is Met exactly *)
(* when IntInRange is NotMet, so that exactly one of the two is Met; with  *)
(* start > end IntInRange is never Met and IntNotInRange always is; on a   *)
(* value that is no integer both are NotMet.                               *)
(***************************************************************************)
C24_Original ==
    (call.fn = "int_range" /\ call.step = "checked") =>
        /\ call.inside \in {"Met", "NotMet"}
        /\ call.outside \in {"Met", "NotMet"}
        /\ call.value.t = "int" =>
              /\ call.inside = "Met" <=>
                    (call.start <= call.value.v /\ call.value.v <= call.end)
              /\ call.outside = "Met" <=> call.inside = "NotMet"
              /\ call.start > call.end =>
                    (call.inside = "NotMet" /\ call.outside = "Met")
        /\ call.value.t # "int" =>
              (call.inside = "NotMet" /\ call.outside = "NotMet")


(***************************************************************************)
(* C25: a suppressed event leaves the cache entry of its group as it is:   *)
(* neither the stored time of insertion nor the stored TTL is refreshed,   *)
(* also when the suppressed event carries another TTL.  The window runs    *)
(* from the first firing with the TTL of the event that fired, and a group *)
(* that keeps being triggered fires again once that window has elapsed.    *)
(***************************************************************************)
\* every entry is the one the last firing of its group inserted
C25_EntryOfFiring ==
    \A g \in DOMAIN coalescences :
       /\ lastFire[g].fired
       /\ coalescences[g] = [start |-> lastFire[g].at, expiration |-> lastFire[g].ttl]

C25_Step(c) ==
    RunDecide(c) =>
        LET e  == CurrentEvent(c)
            lf == lastFire[e.coalescence_group.v]
        IN /\ hit[c] => (Drops(c) /\ coalescences' = coalescences)
           /\ lf.fired /\ evictAt[c] - lf.at >= TtlTicks(lf.ttl) => Keeps(c)
           /\ lf.fired /\ evictAt[c] - lf.at < TtlTicks(lf.ttl) => Drops(c)

C25_SuppressedKeepsEntry ==
    []C25_EntryOfFiring /\ [][\A c \in Callers : C25_Step(c)]_vars

\* a run is about to drop the callback with a TTL of two seconds, while the
\* entry of its group was inserted in an earlier run with a TTL of one second
C25_Witness ==
    /\ pc[Owner] = "decide"
    /\ hit[Owner]
    /\ CurrentEvent(Owner).coalescence = Some(2)
    /\ CurrentEvent(Owner).coalescence_group = Some(GroupG)
    /\ coalescences[GroupG].expiration = 1
    /\ coalescences[GroupG].start < evictAt[Owner]


(***************************************************************************)
(* C26: within one run, of the candidate events (of one rule or of several *)
(* Met rules) that carry the same rendered group key and a TTL, and for    *)
(* whose key no live entry is left after eviction, exactly the first in    *)
(* (rule order, event order) fires and all later ones are dropped; events  *)
(* that render to different keys do not suppress one another.              *)
(***************************************************************************)
\* the events of the run that the loop has kept so far with group key g
KeptBefore(c, g) ==
    UNION { { <<ri, ei>> :
                ei \in {j \in 1..Len(rule_results[c][ri].events) :
                          /\ ri < cursor[c].ri \/ (ri = cursor[c].ri /\ j < cursor[c].ei)
                          /\ Coalesced(rule_results[c][ri].events[j])
                          /\ rule_results[c][ri].events[j].coalescence_group.v = g} } :
            ri \in 1..Len(rule_results[c]) }

C26_Step(c) ==
    RunDecide(c) =>
        LET g == CurrentEvent(c).coalescence_group.v
        IN /\ KeptBefore(c, g) # {} => Drops(c)
           /\ KeptBefore(c, g) = {} /\ g \notin DOMAIN coalescences =>
                 /\ Keeps(c)
                 /\ g \in DOMAIN coalescences'
                 /\ \A k \in DOMAIN coalescences : coalescences'[k] = coalescences[k]
           /\ Drops(c) => g \in DOMAIN coalescences

\* of the events the loop has passed, at most one per group key is kept
C26_OnePerKey ==
    \A c \in Callers :
       pc[c] \in {"coalescing", "decide", "dispatching"} =>
          \A g \in GroupKeys : Cardinality(KeptBefore(c, g)) <= 1

C26_FirstOfGroupFires == []C26_OnePerKey /\ [][\A c \in Callers : C26_Step(c)]_vars

\* the run has fired the first event of key "A" and the first of key g in
\* the rule with four coalesced events, has dropped the later two of that
\* rule, and is about to drop the callback of group g of the next rule
C26_Witness ==
    /\ pc[Owner] = "decide"
    /\ hit[Owner]
    /\ rules = <<GroupRule, 1>>
    /\ cursor[Owner] = [ri |-> 2, ei |-> 1]
    /\ Len(rule_results[Owner][1].events) = 2
    /\ CurrentEvent(Owner).coalescence_group = Some(GroupG)
    /\ KeptBefore(Owner, GroupG) = {<<1, 2>>}
    /\ KeptBefore(Owner, <<Lit("A")>>) = {<<1, 1>>}
    /\ lastFire[GroupG].at >= evictAt[Owner]


(***************************************************************************)
(* C27: the cache entry of a group is inserted before the dispatch and is  *)
(* never taken back: when the dispatch of a fired event fails the entry    *)
(* stays, and later events of the group are dropped until the TTL has      *)
(* elapsed, so that the failed notification is not tried again inside the  *)
(* window.                                                                 *)
(***************************************************************************)
\* the event a request was built for
EventOf(c, i) == rule_results[c][requests[c][i].ri].events[requests[c][i].ei]

\* while the requests are in flight or done, failed or not, the group of
\* each coalesced one is cached as its firing inserted it
C27_EntryStays ==
    \A c \in Callers :
       pc[c] \in {"dispatching", "returned"} =>
          \A i \in 1..Len(requests[c]) :
             Coalesced(EventOf(c, i)) =>
                LET g == EventOf(c, i).coalescence_group.v
                IN /\ g \in DOMAIN coalescences
                   /\ coalescences[g] = [start |-> lastFire[g].at,
                                         expiration |-> lastFire[g].ttl]

C27_Step(c) ==
    /\ pc[c] \in {"dispatching", "returned"} => coalescences' = coalescences
    /\ RunDecide(c) /\ CurrentEvent(c).coalescence_group.v \in DOMAIN coalescences =>
          Drops(c)
    /\ RunEvict(c) =>
          \A g \in DOMAIN coalescences :
             ElapsedSecs(coalescences[g].start) < coalescences[g].expiration =>
                g \in DOMAIN coalescences' /\ coalescences'[g] = coalescences[g]

C27_NoRollback == []C27_EntryStays /\ [][\A c \in Callers : C27_Step(c)]_vars

\* every request of the run is complete, the callback of group g has
\* failed, and the entry of its group is in the cache
C27_Witness ==
    /\ pc[Owner] = "dispatching"
    /\ AllComplete(Owner)
    /\ \E i \in 1..Len(requests[Owner]) :
          /\ requests[Owner][i].st = "failed"
          /\ EventOf(Owner, i).kind = "post_to_callback_url"
          /\ EventOf(Owner, i).coalescence_group = Some(GroupG)
          /\ GroupG \in DOMAIN coalescences
          /\ coalescences[GroupG].expiration = EventOf(Owner, i).coalescence.v


(***************************************************************************)
(* C28: which rules run() returns, and every status in their condition     *)
(* results, depend on the registered rules and on the facts only, never on *)
(* the coalescence cache or on earlier runs: a Met rule all of whose       *)
(* events are suppressed is returned all the same, with no events, and two *)
(* runs with the same rules and facts return the same condition results.   *)
(***************************************************************************)
\* the condition results of a list of rule results
ConditionResults(rr) == [k \in 1..Len(rr) |-> rr[k].condition_result]

\* the condition results of the Met rules of the registry on info, in order
MetConditionResults(info) ==
    [k \in 1..Cardinality(MetIndices(info)) |->
        ConditionCheck(Catalogue[rules[NthSmallest(MetIndices(info), k)]].conditions,
                       info)]

C28_ResultsIgnoreCache ==
    \A c \in Callers :
       /\ pc[c] \in {"evaluated", "coalescing", "decide", "dispatching"} =>
             ConditionResults(rule_results[c]) = MetConditionResults(input[c].tree)
       /\ pc[c] = "returned" /\ input[c].serializable =>
             /\ ret[c].st = "ok"
             /\ ConditionResults(ret[c].value) = MetConditionResults(input[c].tree)

\* the run returns the Met rule with the callback of group g, whose only
\* event was suppressed by the entry of an earlier run
C28_Witness ==
    /\ pc[Owner] = "returned"
    /\ ret[Owner].st = "ok"
    /\ GroupG \in DOMAIN coalescences
    /\ coalescences[GroupG].start < evictAt[Owner]
    /\ \E k \in 1..Len(ret[Owner].value) :
          /\ ret[Owner].value[k].events = <<>>
          /\ ret[Owner].value[k].condition_result.status = "Met"
          /\ Catalogue[rules[NthSmallest(MetIndices(facts[Owner]), k)]].events # <<>>


(***************************************************************************)
(* C29: a rule whose root status is NotMet or Unknown has no effect on the *)
(* engine in that run: none of its events is dispatched and no cache entry *)
(* is inserted or refreshed for its group keys, so that it never           *)
(* suppresses a later firing of the same group by a Met rule.              *)
(***************************************************************************)
\* e is the rendering of an event of a registered rule that is Met
FromMetRule(c, e) ==
    \E i \in MetIndices(facts[c]) :
       \E j \in 1..Len(Catalogue[rules[i]].events) :
          e = RenderEvent(Catalogue[rules[i]].events[j], facts[c])

\* the events the run works on, and those it dispatches, are events of
\* Met rules
C29_OnlyMetRules ==
    \A c \in Callers :
       pc[c] \in {"evaluated", "coalescing", "decide", "dispatching"} =>
          /\ \A k \in 1..Len(rule_results[c]) :
                \A j \in 1..Len(rule_results[c][k].events) :
                   FromMetRule(c, rule_results[c][k].events[j])
          /\ \A i \in 1..Len(requests[c]) :
                /\ requests[c][i].ri \in 1..Len(rule_results[c])
                /\ requests[c][i].ei \in
                      1..Len(rule_results[c][requests[c][i].ri].events)

\* the cache changes by eviction, or by the insertion of the key of an
\* event of a Met rule; an event whose key is not cached fires
C29_Step ==
    /\ (coalescences' # coalescences \/ lastFire' # lastFire) =>
          \E c \in Callers :
             \/ RunEvict(c)
             \/ /\ RunDecide(c)
                /\ ~hit[c]
                /\ FromMetRule(c, CurrentEvent(c))
                /\ DOMAIN coalescences' =
                      DOMAIN coalescences \cup {CurrentEvent(c).coalescence_group.v}
                /\ \A k \in DOMAIN coalescences : coalescences'[k] = coalescences[k]
    /\ \A c \in Callers :
          RunDecide(c) /\ CurrentEvent(c).coalescence_group.v \notin DOMAIN coalescences
             => Keeps(c)

C29_NonMetHasNoEffect == []C29_OnlyMetRules /\ [][C29_Step]_vars

\* the first rule of the registry is Unknown on the facts and carries a
\* callback coalesced in group g; the run did not cache g for it, and the
\* message of the Met rule after it, whose key renders to g, is about to fire
C29_Witness ==
    /\ pc[Owner] = "decide"
    /\ ~hit[Owner]
    /\ rules = <<3, 2>>
    /\ ConditionCheck(Catalogue[3].conditions, facts[Owner]).status = "Unknown"
    /\ RenderEvent(Catalogue[3].events[3], facts[Owner]).coalescence_group = Some(GroupG)
    /\ Coalesced(Catalogue[3].events[3])
    /\ CurrentEvent(Owner).kind = "message"
    /\ CurrentEvent(Owner).coalescence_group = Some(GroupG)
    /\ GroupG \notin DOMAIN coalescences


(***************************************************************************)
(* C30: when run() fails because the facts cannot be converted to the      *)
(* value tree, the state of the engine is as before the call: the registry *)
(* is the same and the cache holds the same entries, those whose TTL has   *)
(* elapsed included (nothing is evicted).                                  *)
(***************************************************************************)
\* the run that fails is one step from the call to the error, and neither
\* that step nor the caller taking the error changes the engine
C30_Step(c) ==
    /\ (pc[c] = "idle" /\ pc'[c] # "idle" /\ ~to_value(input'[c]).ok) =>
          /\ pc'[c] = "returned"
          /\ ret'[c].st = "err"
          /\ rules' = rules
          /\ coalescences' = coalescences
          /\ sinks' = sinks
    /\ (pc[c] = "returned" /\ ret[c].st = "err") =>
          /\ rules' = rules
          /\ coalescences' = coalescences
          /\ sinks' = sinks

C30_FailedRunKeepsEngine == [][\A c \in Callers : C30_Step(c)]_vars

\* a run has failed on its facts while the cache holds an entry whose TTL
\* has elapsed
C30_Witness ==
    /\ pc[Owner] = "returned"
    /\ ret[Owner].st = "err"
    /\ ~input[Owner].serializable
    /\ rules # <<>>
    /\ \E g \in DOMAIN coalescences : ~Live(coalescences[g])

====
